---- MODULE Spec2Model ----
(***************************************************************************)
(* Multi-author blog: the domain layer (blog_multi_usuario.py) over the    *)
(* persistence layer (gestor_datos.py).                                    *)
(*                                                                         *)
(* A Python str is a sequence of one-character strings.  A Python value    *)
(* that may be an int, a str or None (the id parameters) is a record       *)
(* [t, n, s]: t its type, n the int, s the str.                            *)
(***************************************************************************)
EXTENDS Integers, Sequences, FiniteSets, TLC

VARIABLES
    autores_csv,   \* rows of the authors file, as guardar_datos wrote them
    posts_json,    \* the list stored in the posts file
    asignados,     \* history: the ids the creates have returned, per collection
    ult,           \* history: the last call, its arguments and its outcome
    disco,         \* the CSV file and the JSON file the persistence layer is
                   \* exercised on by itself, each as it lies on disk
    hilos          \* the calls in progress on the files of disco, one per
                   \* thread of control: the call, its position, its locals

vars == <<autores_csv, posts_json, asignados, ult, disco, hilos>>

----------------------------------------------------------------------------
(* Python values *)

PyInt(n) == [t |-> "int", n |-> n, s |-> <<>>, l |-> <<>>]

PyStr(s) == [t |-> "str", n |-> 0, s |-> s, l |-> <<>>]

PyList(l) == [t |-> "list", n |-> 0, s |-> <<>>, l |-> l]

PyTuple(l) == [t |-> "tuple", n |-> 0, s |-> <<>>, l |-> l]

PyNone == [t |-> "none", n |-> 0, s |-> <<>>, l |-> <<>>]

\* a dict, l its items: a function from the keys
PyDict(d) == [t |-> "dict", n |-> 0, s |-> <<>>, l |-> d]

\* x is None
EsNone(x) == "t" \in DOMAIN x /\ x.t = "none"

Digitos == <<"0", "1", "2", "3", "4", "5", "6", "7", "8", "9">>

RECURSIVE IntToStr(_)
IntToStr(n) ==
    IF n < 10 THEN <<Digitos[n + 1]>>
    ELSE IntToStr(n \div 10) \o <<Digitos[(n % 10) + 1]>>

\* str(x)
str(x) ==
    CASE x.t = "int" -> IntToStr(x.n)
      [] x.t = "str" -> x.s
      [] OTHER -> <<"N", "o", "n", "e">>

EsDigito(c) == \E i \in 1..10 : Digitos[i] = c

ValorDigito(c) == (CHOOSE i \in 1..10 : Digitos[i] = c) - 1

RECURSIVE ValorDecimal(_)
ValorDecimal(s) ==
    IF s = <<>> THEN 0
    ELSE 10 * ValorDecimal(SubSeq(s, 1, Len(s) - 1)) + ValorDigito(s[Len(s)])

\* int(s) for a str of decimal digits; ValueError otherwise
EsEntero(s) == s # <<>> /\ \A i \in 1..Len(s) : EsDigito(s[i])

Blancos == {" ", "\t", "\n", "\r"}

RECURSIVE lstrip(_)
lstrip(s) ==
    IF s = <<>> \/ Head(s) \notin Blancos THEN s ELSE lstrip(Tail(s))

RECURSIVE rstrip(_)
rstrip(s) ==
    IF s = <<>> \/ s[Len(s)] \notin Blancos THEN s
    ELSE rstrip(SubSeq(s, 1, Len(s) - 1))

\* s.strip()
strip(s) == rstrip(lstrip(s))

Mayusculas ==
    <<"A", "B", "C", "D", "E", "F", "G", "H", "I", "J", "K", "L", "M",
      "N", "O", "P", "Q", "R", "S", "T", "U", "V", "W", "X", "Y", "Z">>

Minusculas ==
    <<"a", "b", "c", "d", "e", "f", "g", "h", "i", "j", "k", "l", "m",
      "n", "o", "p", "q", "r", "s", "t", "u", "v", "w", "x", "y", "z">>

EsMayuscula(c) == \E i \in 1..Len(Mayusculas) : Mayusculas[i] = c

EsMinuscula(c) == \E i \in 1..Len(Minusculas) : Minusculas[i] = c

EsLetra(c) == EsMayuscula(c) \/ EsMinuscula(c)

LowerChar(c) ==
    IF EsMayuscula(c)
    THEN Minusculas[CHOOSE i \in 1..Len(Mayusculas) : Mayusculas[i] = c]
    ELSE c

\* s.lower()
lower(s) == [i \in 1..Len(s) |-> LowerChar(s[i])]

----------------------------------------------------------------------------
(* Helpers and validations *)

\* _es_str_no_vacio for a str argument
_es_str_no_vacio(valor) == strip(valor) # <<>>

\* the character classes of _EMAIL_RE
ClaseLocal(c) == EsLetra(c) \/ EsDigito(c) \/ c \in {".", "_", "%", "+", "-"}

ClaseDominio(c) == EsLetra(c) \/ EsDigito(c) \/ c \in {".", "-"}

\* _EMAIL_RE.match(s): ^[A-Za-z0-9._%+-]+@[A-Za-z0-9.-]+\.[A-Za-z]{2,}$
\* ($ also matches just before one final newline)
_EMAIL_RE_match(s) ==
    \E fin \in {Len(s), Len(s) - 1} :
        /\ fin >= 0
        /\ fin = Len(s) \/ s[Len(s)] = "\n"
        /\ \E a \in 2..fin : \E p \in (a + 2)..fin :
            /\ s[a] = "@"
            /\ \A i \in 1..(a - 1) : ClaseLocal(s[i])
            /\ \A i \in (a + 1)..(p - 1) : ClaseDominio(s[i])
            /\ s[p] = "."
            /\ fin - p >= 2
            /\ \A i \in (p + 1)..fin : EsLetra(s[i])

\* _validar_email: TRUE when it raises ValidacionError
_validar_email_falla(email) ==
    ~_es_str_no_vacio(email) \/ ~_EMAIL_RE_match(email)

\* the outcome of a call: a returned value, or the exception raised
Retorna(v) == [t |-> "ok", v |-> v]

Lanza(clase) == [t |-> "err", v |-> clase]

Max(S) == CHOOSE m \in S : \A k \in S : k <= m

\* the error kinds of the domain layer, by the names the code raises them with
Taxonomia ==
    {"ValidacionError", "EmailDuplicado", "AutorNoEncontrado", "PostNoEncontrado",
     "AccesoNoAutorizado"}

\* the class a name of the module is bound to: ErrorDeDominio = Exception, and
\* each kind = ErrorDeDominio; any other name is a class of its own
ClaseDeError(nombre) ==
    IF nombre \in Taxonomia \cup {"ErrorDeDominio"} THEN "Exception" ELSE nombre

\* 'except manejador' intercepts an exception raised as lanzada: the raised
\* object is an instance of the handler's class, and every exception is an
\* instance of Exception
Captura(manejador, lanzada) ==
    \/ ClaseDeError(manejador) = "Exception"
    \/ ClaseDeError(manejador) = ClaseDeError(lanzada)

\* _generar_id from the number of items, not from the largest id
_generar_id_por_longitud(items, clave_id) == Len(items) + 1

\* _generar_id: 1 for no items, 1 when an id is no integer (ValueError),
\* else the largest id plus one
_generar_id(items, clave_id) ==
    IF items = <<>> THEN 1
    ELSE IF \E i \in 1..Len(items) : ~EsEntero(items[i][clave_id]) THEN 0 + 1
    ELSE Max({ValorDecimal(items[i][clave_id]) : i \in 1..Len(items)}) + 1

\* Indice with idx starting at the first item, not at -1
Indice_desde_cero(items, clave, valor) ==
    IF \E i \in 1..Len(items) : items[i][clave] = valor
    THEN CHOOSE i \in 1..Len(items) :
            /\ items[i][clave] = valor
            /\ \A j \in 1..(i - 1) : items[j][clave] # valor
    ELSE IF items = <<>> THEN 0 ELSE 1

\* the index of the first item with item[clave] = valor, or 0 (idx == -1)
Indice(items, clave, valor) ==
    IF \E i \in 1..Len(items) : items[i][clave] = valor
    THEN CHOOSE i \in 1..Len(items) :
            /\ items[i][clave] = valor
            /\ \A j \in 1..(i - 1) : items[j][clave] # valor
    ELSE 0

----------------------------------------------------------------------------
(* Persistence (gestor_datos.py) *)

CAMPOS_AUTORES == <<"id_autor", "nombre_autor", "email", "password_hash">>

\* guardar_datos, CSV: one row per item, the four fixed columns, every value
\* as text (the domain layer passes str values, and str(s) = s)
guardar_datos_csv(datos) ==
    [i \in 1..Len(datos) |->
        [k \in {CAMPOS_AUTORES[j] : j \in 1..Len(CAMPOS_AUTORES)} |-> datos[i][k]]]

\* cargar_datos, CSV: one dict per row, every cell stripped
cargar_datos_csv(archivo) ==
    [i \in 1..Len(archivo) |->
        [k \in DOMAIN archivo[i] |-> strip(archivo[i][k])]]

\* guardar_datos, JSON: json.dumps of lists, dicts and str keeps them as they are
guardar_datos_json(datos) == datos

\* cargar_datos, JSON: json.load gives back the stored list
cargar_datos_json(archivo) == archivo

\* a call's effect: the file content after it and its outcome
Efecto(archivo, ret) == [archivo |-> archivo, ret |-> ret]

----------------------------------------------------------------------------
(* Persistence on the files as they lie on disk.  A file is absent, or holds
   text, or holds bytes that are no UTF-8, or cannot be opened.  The text of
   a CSV file is a header row and rows of cells, as the csv module writes and
   reads them; the text of a JSON file is a JSON value, or no JSON document
   at all. *)

Archivo(estado, contenido) == [estado |-> estado, contenido |-> contenido]

Ausente == Archivo("ausente", <<>>)

Csv(cabecera, filas) == [cabecera |-> cabecera, filas |-> filas]

JNull == [j |-> "null", n |-> 0, s |-> <<>>, l |-> <<>>]

JNum(n) == [j |-> "number", n |-> n, s |-> <<>>, l |-> <<>>]

JStr(s) == [j |-> "string", n |-> 0, s |-> s, l |-> <<>>]

JArr(l) == [j |-> "array", n |-> 0, s |-> <<>>, l |-> l]

JObj(d) == [j |-> "object", n |-> 0, s |-> <<>>, l |-> d]

\* a text that is no JSON document: cut short, empty, or something else
JInvalido == [j |-> "invalido", n |-> 0, s |-> <<>>, l |-> <<>>]

\* json.dumps: lists and tuples both become arrays
RECURSIVE json_dumps(_)
json_dumps(v) ==
    CASE v.t = "none" -> JNull
      [] v.t = "int" -> JNum(v.n)
      [] v.t = "str" -> JStr(v.s)
      [] v.t \in {"list", "tuple"} -> JArr([i \in 1..Len(v.l) |-> json_dumps(v.l[i])])
      [] v.t = "dict" -> JObj([k \in DOMAIN v.l |-> json_dumps(v.l[k])])

\* json.load: every array becomes a list
RECURSIVE json_load(_)
json_load(j) ==
    CASE j.j = "null" -> PyNone
      [] j.j = "number" -> PyInt(j.n)
      [] j.j = "string" -> PyStr(j.s)
      [] j.j = "array" -> PyList([i \in 1..Len(j.l) |-> json_load(j.l[i])])
      [] j.j = "object" -> PyDict([k \in DOMAIN j.l |-> json_load(j.l[k])])

\* inicializar_archivo writing the empty file whether or not one exists
inicializar_archivo_siempre(formato, archivo) ==
    Archivo("texto", IF formato = "csv" THEN Csv(CAMPOS_AUTORES, <<>>) ELSE JArr(<<>>))

\* inicializar_archivo: an absent file is created, a header row for CSV and
\* the empty list for JSON; a file that exists is left alone
inicializar_archivo(formato, archivo) ==
    IF archivo.estado = "ausente"
    THEN Archivo("texto", IF formato = "csv" THEN Csv(CAMPOS_AUTORES, <<>>) ELSE JArr(<<>>))
    ELSE archivo

\* the dict cargar_datos makes of one row: per column of the header the
\* row's cell, or str(None) where the row is too short, stripped
limpio(campos, fila) ==
    [k \in {campos[j] : j \in 1..Len(campos)} |->
        LET j == CHOOSE j \in 1..Len(campos) : campos[j] = k
        IN  strip(IF j <= Len(fila) THEN fila[j] ELSE str(PyNone))]

\* cargar_datos: the file is initialised first, outside the try; the except
\* clause catches FileNotFoundError, JSONDecodeError and UnicodeDecodeError
cargar_datos(formato, archivo) ==
    LET a == inicializar_archivo(formato, archivo)
    IN  CASE a.estado = "ilegible" -> Efecto(a, Lanza("OSError"))
          [] a.estado = "no_utf8" -> Efecto(a, Retorna(<<>>))
          [] formato = "csv" ->
                LET campos == IF a.contenido.cabecera = <<>> THEN CAMPOS_AUTORES
                              ELSE a.contenido.cabecera
                    ConCeldas(fila) == fila # <<>>
                    filas == SelectSeq(a.contenido.filas, ConCeldas)
                IN  Efecto(a, Retorna([i \in 1..Len(filas) |-> limpio(campos, filas[i])]))
          [] OTHER ->
                Efecto(a, Retorna(IF a.contenido.j = "array"
                                  THEN json_load(a.contenido).l ELSE <<>>))

\* fila_csv writing str(None) for None
fila_csv_con_none(item) ==
    [j \in 1..Len(CAMPOS_AUTORES) |->
        LET k == CAMPOS_AUTORES[j]
        IN  IF k \in DOMAIN item.l THEN str(item.l[k]) ELSE <<>>]

\* the row guardar_datos writes for one item: per fixed column str() of the
\* item's value, or the empty text where the value is missing or None
fila_csv(item) ==
    [j \in 1..Len(CAMPOS_AUTORES) |->
        LET k == CAMPOS_AUTORES[j]
        IN  IF k \in DOMAIN item.l /\ item.l[k].t # "none" THEN str(item.l[k]) ELSE <<>>]

\* guardar_datos: the whole content is built and then put in the file's
\* place by _escritura_atomica
guardar_datos(formato, archivo, datos) ==
    IF formato = "csv"
    THEN Efecto(Archivo("texto", Csv(CAMPOS_AUTORES, [i \in 1..Len(datos) |-> fila_csv(datos[i])])),
                Retorna(PyNone))
    ELSE Efecto(Archivo("texto", json_dumps(PyList(datos))), Retorna(PyNone))

----------------------------------------------------------------------------
(* Authors (blog_multi_usuario.py) *)

\* EmailRegistrado without the lower() of the two sides
EmailRegistrado_sin_lower(autores, email) ==
    \E i \in 1..Len(autores) : strip(autores[i].email) = strip(email)

\* some loaded author has this email, both sides stripped and lower-cased
EmailRegistrado(autores, email) ==
    \E i \in 1..Len(autores) :
        lower(strip(autores[i].email)) = lower(strip(email))

crear_autor(archivo, nombre_autor, email, password_hash) ==
    IF ~_es_str_no_vacio(nombre_autor) THEN Efecto(archivo, Lanza("ValidacionError"))
    ELSE IF _validar_email_falla(email) THEN Efecto(archivo, Lanza("ValidacionError"))
    ELSE
        LET autores == cargar_datos_csv(archivo)
        IN  IF EmailRegistrado(autores, email)
            THEN Efecto(archivo, Lanza("EmailDuplicado"))
            ELSE
                LET nuevo_id == _generar_id(autores, "id_autor")
                    autor == [id_autor |-> str(PyInt(nuevo_id)),
                              nombre_autor |-> strip(nombre_autor),
                              email |-> lower(strip(email)),
                              password_hash |-> strip(password_hash)]
                IN  Efecto(guardar_datos_csv(Append(autores, autor)), Retorna(autor))

\* buscar_autor_por_id: the first author with that id, or None
\* buscar_autor_por_id returning the first stored author, whatever its id
buscar_autor_por_id_el_primero(archivo, id_autor) ==
    LET autores == cargar_datos_csv(archivo)
    IN  IF autores = <<>> THEN Retorna(PyNone) ELSE Retorna(autores[1])

\* buscar_autor_por_id: the first author with that id, or None
buscar_autor_por_id(archivo, id_autor) ==
    LET autores == cargar_datos_csv(archivo)
        idx == Indice(autores, "id_autor", str(id_autor))
    IN  IF idx = 0 THEN Retorna(PyNone) ELSE Retorna(autores[idx])

\* buscar_autor_por_email without the lower() of the email looked for
buscar_autor_por_email_sin_lower(archivo, email) ==
    IF _validar_email_falla(email) THEN Lanza("ValidacionError")
    ELSE
        LET autores == cargar_datos_csv(archivo)
            email_l == strip(email)
            Coincide(i) == lower(strip(autores[i].email)) = email_l
        IN  IF \E i \in 1..Len(autores) : Coincide(i)
            THEN Retorna(autores[CHOOSE i \in 1..Len(autores) :
                            Coincide(i) /\ \A j \in 1..(i - 1) : ~Coincide(j)])
            ELSE Retorna(PyNone)

\* buscar_autor_por_email: the first author with that email, or None
buscar_autor_por_email(archivo, email) ==
    IF _validar_email_falla(email) THEN Lanza("ValidacionError")
    ELSE
        LET autores == cargar_datos_csv(archivo)
            email_l == lower(strip(email))
            Coincide(i) == lower(strip(autores[i].email)) = email_l
        IN  IF \E i \in 1..Len(autores) : Coincide(i)
            THEN Retorna(autores[CHOOSE i \in 1..Len(autores) :
                            Coincide(i) /\ \A j \in 1..(i - 1) : ~Coincide(j)])
            ELSE Retorna(PyNone)

\* EmailEnUsoPorOtro with the id test inverted (== for !=)
EmailEnUsoPorOtro_mismo_id(autores, id_str, nuevo_email) ==
    \E i \in 1..Len(autores) :
        /\ autores[i].id_autor = id_str
        /\ lower(strip(autores[i].email)) = nuevo_email

\* EmailEnUsoPorOtro without the id test: the author's own email counts
EmailEnUsoPorOtro_y_por_si(autores, id_str, nuevo_email) ==
    \E i \in 1..Len(autores) : lower(strip(autores[i].email)) = nuevo_email

\* the new email is in use by an author with another id
EmailEnUsoPorOtro(autores, id_str, nuevo_email) ==
    \E i \in 1..Len(autores) :
        /\ autores[i].id_autor # id_str
        /\ lower(strip(autores[i].email)) = nuevo_email

\* actualizar_autor; datos_nuevos is a dict of str values keyed by field name
actualizar_autor(archivo, id_autor, datos_nuevos) ==
    LET autores == cargar_datos_csv(archivo)
        id_str == str(id_autor)
        idx == Indice(autores, "id_autor", id_str)
        claves == DOMAIN datos_nuevos
        nuevo_email == lower(strip(datos_nuevos["email"]))
    IN  IF idx = 0 THEN Efecto(archivo, Lanza("AutorNoEncontrado"))
        ELSE IF "nombre_autor" \in claves /\ ~_es_str_no_vacio(datos_nuevos["nombre_autor"])
        THEN Efecto(archivo, Lanza("ValidacionError"))
        ELSE IF "email" \in claves /\ _validar_email_falla(nuevo_email)
        THEN Efecto(archivo, Lanza("ValidacionError"))
        ELSE IF "email" \in claves /\ EmailEnUsoPorOtro(autores, id_str, nuevo_email)
        THEN Efecto(archivo, Lanza("EmailDuplicado"))
        ELSE
            LET autor ==
                    [k \in DOMAIN autores[idx] |->
                        CASE k = "nombre_autor" /\ k \in claves -> strip(datos_nuevos[k])
                          [] k = "email" /\ k \in claves -> nuevo_email
                          [] k = "password_hash" /\ k \in claves -> strip(datos_nuevos[k])
                          [] OTHER -> autores[idx][k]]
            IN  Efecto(guardar_datos_csv([autores EXCEPT ![idx] = autor]),
                       Retorna(autor))

\* eliminar_autor returning True whether or not an author was removed
eliminar_autor_siempre_true(archivo, id_autor) ==
    LET autores == cargar_datos_csv(archivo)
        id_str == str(id_autor)
        Otro(a) == a.id_autor # id_str
    IN  Efecto(guardar_datos_csv(SelectSeq(autores, Otro)), Retorna(TRUE))

\* eliminar_autor moving the last row into the place of the removed one
eliminar_autor_mueve_el_ultimo(archivo, id_autor) ==
    LET autores == cargar_datos_csv(archivo)
        id_str == str(id_autor)
        idx == Indice(autores, "id_autor", id_str)
        n == Len(autores)
    IN  IF idx = 0 THEN Efecto(archivo, Retorna(FALSE))
        ELSE Efecto(guardar_datos_csv(SubSeq([autores EXCEPT ![idx] = autores[n]], 1, n - 1)),
                    Retorna(TRUE))

\* eliminar_autor: True when an author was removed, the file then rewritten
eliminar_autor(archivo, id_autor) ==
    LET autores == cargar_datos_csv(archivo)
        id_str == str(id_autor)
        Otro(a) == a.id_autor # id_str
        quedan == SelectSeq(autores, Otro)
    IN  IF Len(quedan) < Len(autores)
        THEN Efecto(guardar_datos_csv(quedan), Retorna(TRUE))
        ELSE Efecto(archivo, Retorna(FALSE))

----------------------------------------------------------------------------
(* Tags *)

\* _normalizar_tags raises ValidacionError: some element is no str
_normalizar_tags_falla(tags) == \E i \in 1..Len(tags) : tags[i].t # "str"

\* the loop of _normalizar_tags, from the tags not yet visited and the
\* normalised ones so far
RECURSIVE NormalizarDesde(_, _)
NormalizarDesde(tags, normalizados) ==
    IF tags = <<>> THEN normalizados
    ELSE
        LET tt == lower(strip(Head(tags).s))
            visto == \E i \in 1..Len(normalizados) : normalizados[i] = tt
        IN  NormalizarDesde(Tail(tags),
                IF tt # <<>> /\ ~visto THEN Append(normalizados, tt) ELSE normalizados)

\* _normalizar_tags without the set of the tags already seen
RECURSIVE _normalizar_tags_sin_vistos(_)
_normalizar_tags_sin_vistos(tags) ==
    IF tags = <<>> THEN <<>>
    ELSE
        LET tt == lower(strip(Head(tags).s))
        IN  (IF tt # <<>> THEN <<tt>> ELSE <<>>) \o _normalizar_tags_sin_vistos(Tail(tags))

_normalizar_tags(tags) == NormalizarDesde(tags, <<>>)

\* s.split(",")
RECURSIVE split_coma(_)
split_coma(s) ==
    IF \E i \in 1..Len(s) : s[i] = ","
    THEN LET i == CHOOSE i \in 1..Len(s) :
                    s[i] = "," /\ \A j \in 1..(i - 1) : s[j] # ","
         IN  <<SubSeq(s, 1, i - 1)>> \o split_coma(SubSeq(s, i + 1, Len(s)))
    ELSE <<s>>

\* separados without the split: the whole string as one part
separados_sin_partir(s) == <<PyStr(strip(s))>>

\* [p.strip() for p in tags.split(",")]
separados(s) ==
    LET partes == split_coma(s)
    IN  [i \in 1..Len(partes) |-> PyStr(strip(partes[i]))]

\* _parsear_tags raises ValidacionError
_parsear_tags_falla(tags) ==
    CASE tags.t = "none" -> FALSE
      [] tags.t \in {"list", "tuple"} -> _normalizar_tags_falla(tags.l)
      [] tags.t = "str" -> FALSE
      [] OTHER -> TRUE

_parsear_tags(tags) ==
    CASE tags.t = "none" -> <<>>
      [] tags.t \in {"list", "tuple"} -> _normalizar_tags(tags.l)
      [] tags.t = "str" -> _normalizar_tags(separados(tags.s))
      [] OTHER -> <<>>

----------------------------------------------------------------------------
(* Posts *)

\* crear_post; validar_autor_en: the option is given and names the authors
\* file; fecha_publicacion: the option's value or None; ahora: _ahora_str()
crear_post(archivo, autores_archivo, id_autor_en_sesion, titulo, contenido, tags, validar_autor_en, fecha_publicacion, ahora) ==
    LET id_autor_str == str(id_autor_en_sesion)
    IN  IF ~_es_str_no_vacio(titulo) THEN Efecto(archivo, Lanza("ValidacionError"))
        ELSE IF ~_es_str_no_vacio(contenido) THEN Efecto(archivo, Lanza("ValidacionError"))
        ELSE IF /\ validar_autor_en
                /\ EsNone(buscar_autor_por_id(autores_archivo, PyStr(id_autor_str)).v)
        THEN Efecto(archivo, Lanza("AutorNoEncontrado"))
        ELSE
            LET posts == cargar_datos_json(archivo)
                nuevo_id == _generar_id(posts, "id_post")
            IN  IF _parsear_tags_falla(tags) THEN Efecto(archivo, Lanza("ValidacionError"))
                ELSE
                    LET post ==
                            [id_post |-> str(PyInt(nuevo_id)),
                             id_autor |-> id_autor_str,
                             titulo |-> strip(titulo),
                             contenido |-> strip(contenido),
                             fecha_publicacion |->
                                IF fecha_publicacion.t = "str"
                                   /\ _es_str_no_vacio(fecha_publicacion.s)
                                THEN strip(fecha_publicacion.s) ELSE ahora,
                             tags |-> _parsear_tags(tags),
                             comentarios |-> <<>>]
                    IN  Efecto(guardar_datos_json(Append(posts, post)), Retorna(post))

\* EsDueno reading the post's own id for its author's
EsDueno_por_id_post(post, id_autor_en_sesion) == post.id_post = str(id_autor_en_sesion)

\* EsDueno with the test left out
EsDueno_siempre(post, id_autor_en_sesion) == TRUE

\* the ownership test of actualizar_post and eliminar_post
EsDueno(post, id_autor_en_sesion) == post.id_autor = str(id_autor_en_sesion)

\* buscar_post_por_id: the first post with that id, or None
buscar_post_por_id(archivo, id_post) ==
    LET posts == cargar_datos_json(archivo)
        idx == Indice(posts, "id_post", str(id_post))
    IN  IF idx = 0 THEN Retorna(PyNone) ELSE Retorna(posts[idx])

\* buscar_posts_por_tag comparing with `in` on each tag (substring)
buscar_posts_por_tag_subcadena(archivo, tag) ==
    IF ~_es_str_no_vacio(tag) THEN Lanza("ValidacionError")
    ELSE
        LET t == lower(strip(tag))
            posts == cargar_datos_json(archivo)
            Dentro(tt) == \E k \in 0..(Len(tt) - Len(t)) : SubSeq(tt, k + 1, k + Len(t)) = t
            Contiene(p) == \E i \in 1..Len(p.tags) : Dentro(lower(p.tags[i]))
        IN  Retorna(SelectSeq(posts, Contiene))

\* buscar_posts_por_tag: the posts one of whose tags, lower-cased, is the
\* trimmed lower-cased query
buscar_posts_por_tag(archivo, tag) ==
    IF ~_es_str_no_vacio(tag) THEN Lanza("ValidacionError")
    ELSE
        LET t == lower(strip(tag))
            posts == cargar_datos_json(archivo)
            Contiene(p) == \E i \in 1..Len(p.tags) : lower(p.tags[i]) = t
        IN  Retorna(SelectSeq(posts, Contiene))

\* actualizar_post writing the post back at the end of the list
actualizar_post_al_final(archivo, id_post, id_autor_en_sesion, datos_nuevos) ==
    LET posts == cargar_datos_json(archivo)
        id_post_str == str(id_post)
        idx == Indice(posts, "id_post", id_post_str)
        claves == DOMAIN datos_nuevos
        Otro(p) == p.id_post # id_post_str
    IN  IF idx = 0 THEN Efecto(archivo, Lanza("PostNoEncontrado"))
        ELSE IF ~EsDueno(posts[idx], id_autor_en_sesion)
        THEN Efecto(archivo, Lanza("AccesoNoAutorizado"))
        ELSE IF "titulo" \in claves /\ ~_es_str_no_vacio(datos_nuevos["titulo"])
        THEN Efecto(archivo, Lanza("ValidacionError"))
        ELSE IF "contenido" \in claves /\ ~_es_str_no_vacio(datos_nuevos["contenido"])
        THEN Efecto(archivo, Lanza("ValidacionError"))
        ELSE IF "tags" \in claves /\ _parsear_tags_falla(datos_nuevos["tags"])
        THEN Efecto(archivo, Lanza("ValidacionError"))
        ELSE
            LET post ==
                    [k \in DOMAIN posts[idx] |->
                        CASE k = "titulo" /\ k \in claves -> strip(datos_nuevos[k])
                          [] k = "contenido" /\ k \in claves -> strip(datos_nuevos[k])
                          [] k = "tags" /\ k \in claves -> _parsear_tags(datos_nuevos[k])
                          [] OTHER -> posts[idx][k]]
            IN  Efecto(guardar_datos_json(Append(SelectSeq(posts, Otro), post)), Retorna(post))

\* actualizar_post saving the new title before it checks the new content
actualizar_post_guarda_el_titulo(archivo, id_post, id_autor_en_sesion, datos_nuevos) ==
    LET posts == cargar_datos_json(archivo)
        idx == Indice(posts, "id_post", str(id_post))
        claves == DOMAIN datos_nuevos
    IN  IF idx = 0 THEN Efecto(archivo, Lanza("PostNoEncontrado"))
        ELSE IF ~EsDueno(posts[idx], id_autor_en_sesion)
        THEN Efecto(archivo, Lanza("AccesoNoAutorizado"))
        ELSE IF "titulo" \in claves /\ ~_es_str_no_vacio(datos_nuevos["titulo"])
        THEN Efecto(archivo, Lanza("ValidacionError"))
        ELSE IF "contenido" \in claves /\ ~_es_str_no_vacio(datos_nuevos["contenido"])
        THEN Efecto(IF "titulo" \in claves
                    THEN guardar_datos_json([posts EXCEPT ![idx].titulo = strip(datos_nuevos["titulo"])])
                    ELSE archivo,
                    Lanza("ValidacionError"))
        ELSE IF "tags" \in claves /\ _parsear_tags_falla(datos_nuevos["tags"])
        THEN Efecto(archivo, Lanza("ValidacionError"))
        ELSE
            LET post ==
                    [k \in DOMAIN posts[idx] |->
                        CASE k = "titulo" /\ k \in claves -> strip(datos_nuevos[k])
                          [] k = "contenido" /\ k \in claves -> strip(datos_nuevos[k])
                          [] k = "tags" /\ k \in claves -> _parsear_tags(datos_nuevos[k])
                          [] OTHER -> posts[idx][k]]
            IN  Efecto(guardar_datos_json([posts EXCEPT ![idx] = post]), Retorna(post))

\* actualizar_post; datos_nuevos maps "titulo" and "contenido" to str values
\* and "tags" to a tags value
actualizar_post(archivo, id_post, id_autor_en_sesion, datos_nuevos) ==
    LET posts == cargar_datos_json(archivo)
        idx == Indice(posts, "id_post", str(id_post))
        claves == DOMAIN datos_nuevos
    IN  IF idx = 0 THEN Efecto(archivo, Lanza("PostNoEncontrado"))
        ELSE IF ~EsDueno(posts[idx], id_autor_en_sesion)
        THEN Efecto(archivo, Lanza("AccesoNoAutorizado"))
        ELSE IF "titulo" \in claves /\ ~_es_str_no_vacio(datos_nuevos["titulo"])
        THEN Efecto(archivo, Lanza("ValidacionError"))
        ELSE IF "contenido" \in claves /\ ~_es_str_no_vacio(datos_nuevos["contenido"])
        THEN Efecto(archivo, Lanza("ValidacionError"))
        ELSE IF "tags" \in claves /\ _parsear_tags_falla(datos_nuevos["tags"])
        THEN Efecto(archivo, Lanza("ValidacionError"))
        ELSE
            LET post ==
                    [k \in DOMAIN posts[idx] |->
                        CASE k = "titulo" /\ k \in claves -> strip(datos_nuevos[k])
                          [] k = "contenido" /\ k \in claves -> strip(datos_nuevos[k])
                          [] k = "tags" /\ k \in claves -> _parsear_tags(datos_nuevos[k])
                          [] OTHER -> posts[idx][k]]
            IN  Efecto(guardar_datos_json([posts EXCEPT ![idx] = post]), Retorna(post))

eliminar_post(archivo, id_post, id_autor_en_sesion) ==
    LET posts == cargar_datos_json(archivo)
        id_post_str == str(id_post)
        idx == Indice(posts, "id_post", id_post_str)
        Otro(p) == p.id_post # id_post_str
    IN  IF idx = 0 THEN Efecto(archivo, Retorna(FALSE))
        ELSE IF ~EsDueno(posts[idx], id_autor_en_sesion)
        THEN Efecto(archivo, Lanza("AccesoNoAutorizado"))
        ELSE Efecto(guardar_datos_json(SelectSeq(posts, Otro)), Retorna(TRUE))

----------------------------------------------------------------------------
(* Comments *)

\* _generar_id_comentario from the number of comments, not the largest id
_generar_id_comentario_por_longitud(post) == Len(post.comentarios) + 1

_generar_id_comentario(post) == _generar_id(post.comentarios, "id_comentario")

\* agregar_comentario_a_post; id_autor: the keyword argument, None by default
agregar_comentario_a_post(archivo, id_post, autor, contenido, id_autor, ahora) ==
    IF ~_es_str_no_vacio(autor) THEN Efecto(archivo, Lanza("ValidacionError"))
    ELSE IF ~_es_str_no_vacio(contenido) THEN Efecto(archivo, Lanza("ValidacionError"))
    ELSE
        LET posts == cargar_datos_json(archivo)
            idx == Indice(posts, "id_post", str(id_post))
        IN  IF idx = 0 THEN Efecto(archivo, Lanza("PostNoEncontrado"))
            ELSE
                LET post == posts[idx]
                    comentario ==
                        [id_comentario |-> str(PyInt(_generar_id_comentario(post))),
                         autor |-> strip(autor),
                         contenido |-> strip(contenido),
                         fecha |-> ahora,
                         id_autor |-> IF id_autor.t # "none" THEN str(id_autor) ELSE <<>>]
                    nuevo == [post EXCEPT !.comentarios = Append(@, comentario)]
                IN  Efecto(guardar_datos_json([posts EXCEPT ![idx] = nuevo]),
                           Retorna(comentario))

\* ComentarioAjeno taking an empty acting id for an absent one
ComentarioAjeno_vacio_es_ausente(comentario, id_autor_en_sesion) ==
    /\ comentario.id_autor # <<>>
    /\ id_autor_en_sesion.t # "none"
    /\ str(id_autor_en_sesion) # <<>>
    /\ comentario.id_autor # str(id_autor_en_sesion)

\* ComentarioAjeno without the test that the comment records an author
ComentarioAjeno_sin_anonimo(comentario, id_autor_en_sesion) ==
    /\ id_autor_en_sesion.t # "none"
    /\ comentario.id_autor # str(id_autor_en_sesion)

\* the authorization test of eliminar_comentario_de_post and
\* actualizar_comentario_de_post: TRUE when AccesoNoAutorizado is raised
ComentarioAjeno(comentario, id_autor_en_sesion) ==
    /\ comentario.id_autor # <<>>
    /\ id_autor_en_sesion.t # "none"
    /\ comentario.id_autor # str(id_autor_en_sesion)

eliminar_comentario_de_post(archivo, id_post, id_comentario, id_autor_en_sesion) ==
    LET posts == cargar_datos_json(archivo)
        id_com_str == str(id_comentario)
        pidx == Indice(posts, "id_post", str(id_post))
    IN  IF pidx = 0 THEN Efecto(archivo, Lanza("PostNoEncontrado"))
        ELSE
            LET comentarios == posts[pidx].comentarios
                cidx == Indice(comentarios, "id_comentario", id_com_str)
                Otro(c) == c.id_comentario # id_com_str
            IN  IF cidx = 0 THEN Efecto(archivo, Retorna(FALSE))
                ELSE IF ComentarioAjeno(comentarios[cidx], id_autor_en_sesion)
                THEN Efecto(archivo, Lanza("AccesoNoAutorizado"))
                ELSE Efecto(guardar_datos_json(
                                [posts EXCEPT ![pidx].comentarios = SelectSeq(@, Otro)]),
                            Retorna(TRUE))

\* actualizar_comentario_de_post; datos_nuevos maps "contenido" to a str value
actualizar_comentario_de_post(archivo, id_post, id_comentario, datos_nuevos, id_autor_en_sesion) ==
    LET posts == cargar_datos_json(archivo)
        pidx == Indice(posts, "id_post", str(id_post))
    IN  IF pidx = 0 THEN Efecto(archivo, Lanza("PostNoEncontrado"))
        ELSE
            LET comentarios == posts[pidx].comentarios
                cidx == Indice(comentarios, "id_comentario", str(id_comentario))
            IN  IF cidx = 0 THEN Efecto(archivo, Lanza("ValidacionError"))
                ELSE IF ComentarioAjeno(comentarios[cidx], id_autor_en_sesion)
                THEN Efecto(archivo, Lanza("AccesoNoAutorizado"))
                ELSE IF /\ "contenido" \in DOMAIN datos_nuevos
                        /\ ~_es_str_no_vacio(datos_nuevos["contenido"])
                THEN Efecto(archivo, Lanza("ValidacionError"))
                ELSE
                    LET comentario ==
                            IF "contenido" \in DOMAIN datos_nuevos
                            THEN [comentarios[cidx] EXCEPT
                                    !.contenido = strip(datos_nuevos["contenido"])]
                            ELSE comentarios[cidx]
                    IN  Efecto(guardar_datos_json(
                                    [posts EXCEPT ![pidx].comentarios[cidx] = comentario]),
                               Retorna(comentario))

----------------------------------------------------------------------------
(* The program's start (main.py) *)

\* the system author and its welcome post (main.py)
SISTEMA_EMAIL ==
    <<"s", "i", "s", "t", "e", "m", "a", "@", "b", "l", "o", "g", ".", "l",
      "o", "c", "a", "l">>

SISTEMA_NOMBRE ==
    <<"S", "i", "s", "t", "e", "m", "a">>

BIENVENIDA_TAG ==
    <<"b", "i", "e", "n", "v", "e", "n", "i", "d", "a">>

BIENVENIDA_TITULO ==
    <<"B", "i", "e", "n", "v", "e", "n", "i", "d", "o", " ", "a", " ", "t",
      "u", " ", "t", "i", "m", "e", "l", "i", "n", "e">>

BIENVENIDA_CONTENIDO ==
    <<"E", "s", "t", "e", " ", "e", "s", " ", "t", "u", " ", "e", "s", "p",
      "a", "c", "i", "o", ".", " ", "C", "r", "e", "a", " ", "p", "u", "b",
      "l", "i", "c", "a", "c", "i", "o", "n", "e", "s", ",", " ", "c", "o",
      "m", "e", "n", "t", "a", " ", "y", " ", "e", "x", "p", "l", "o", "r",
      "a", ".", "\n", "C", "o", "n", "s", "e", "j", "o", ":", " ", "u", "s",
      "a", " ", "t", "a", "g", "s", " ", "p", "a", "r", "a", " ", "o", "r",
      "g", "a", "n", "i", "z", "a", "r", " ", "t", "u", "s", " ", "t", "e",
      "m", "a", "s", " ", "f", "a", "v", "o", "r", "i", "t", "o", "s", ".">>

\* what a call of the program leaves in the two files, and its outcome
Efecto2(autores, posts, ret) == [autores |-> autores, posts |-> posts, ret |-> ret]

\* ensure_sistema_y_bienvenida creating the welcome post without looking for
\* one
ensure_sistema_y_bienvenida_sin_buscar(autores_archivo, posts_archivo, ahora) ==
    LET hallado == buscar_autor_por_email(autores_archivo, SISTEMA_EMAIL)
        ea == IF EsNone(hallado.v)
              THEN crear_autor(autores_archivo, SISTEMA_NOMBRE, SISTEMA_EMAIL, <<>>)
              ELSE Efecto(autores_archivo, hallado)
        ep == crear_post(posts_archivo, ea.archivo, PyStr(ea.ret.v.id_autor), BIENVENIDA_TITULO, BIENVENIDA_CONTENIDO, PyList(<<PyStr(BIENVENIDA_TAG), PyStr(<<"i", "n", "t", "r", "o">>)>>), TRUE, PyNone, ahora)
    IN  Efecto2(ea.archivo, ep.archivo, ep.ret)

\* ensure_sistema_y_bienvenida: the author with the system email is looked
\* for and created if there is none; the posts tagged "bienvenida" that carry
\* its id are looked for, the first returned, and one created if there is none
ensure_sistema_y_bienvenida(autores_archivo, posts_archivo, ahora) ==
    LET hallado == buscar_autor_por_email(autores_archivo, SISTEMA_EMAIL)
        ea == IF EsNone(hallado.v)
              THEN crear_autor(autores_archivo, SISTEMA_NOMBRE, SISTEMA_EMAIL, <<>>)
              ELSE Efecto(autores_archivo, hallado)
    IN  IF ea.ret.t = "err" THEN Efecto2(ea.archivo, posts_archivo, ea.ret)
        ELSE
            LET autor_sys == ea.ret.v
                DelSistema(p) == p.id_autor = autor_sys.id_autor
                posts == SelectSeq(buscar_posts_por_tag(posts_archivo, BIENVENIDA_TAG).v, DelSistema)
            IN  IF posts # <<>> THEN Efecto2(ea.archivo, posts_archivo, Retorna(posts[1]))
                ELSE
                    LET ep == crear_post(posts_archivo, ea.archivo, PyStr(autor_sys.id_autor), BIENVENIDA_TITULO, BIENVENIDA_CONTENIDO, PyList(<<PyStr(BIENVENIDA_TAG), PyStr(<<"i", "n", "t", "r", "o">>)>>), TRUE, PyNone, ahora)
                    IN  Efecto2(ea.archivo, ep.archivo, ep.ret)

----------------------------------------------------------------------------
(* Bounds and inputs *)

MaxIdAutor == 2

MaxIdPost == 2

MaxIdComentario == 3

MaxRegistros == 3

nombre_A == <<" ", "A", " ">>

nombre_B == <<"B">>

en_blanco == <<" ">>

email_a == <<"a", "@", "b", ".", "c", "o">>

email_A == <<"A", "@", "B", ".", "C", "o">>

email_c == <<"c", "@", "b", ".", "c", "o">>

email_d == <<"d", "@", "b", ".", "c", "o">>

email_malo == <<"a", "@", "b">>

titulo_T == <<" ", "T">>

titulo_U == <<"U">>

contenido_C == <<"C", " ">>

contenido_D == <<"D", " ">>

ahora_t == <<"t">>

\* the tags " B,a,b ,,A" as one comma-separated string
tags_cadena == <<" ", "B", ",", "a", ",", "b", " ", ",", ",", "A">>

\* the tags ["a", " B", "A ", ""] as a list
tags_lista == <<PyStr(<<"a">>), PyStr(<<" ", "B">>), PyStr(<<"A", " ">>), PyStr(<<>>)>>

\* a list with an element that is no str
tags_con_numero == <<PyStr(<<"a">>), PyInt(1)>>

\* tags in every shape: absent, a string, a list, a tuple, a number, a list
\* with a number in it
TagsDados ==
    {PyNone, PyStr(tags_cadena), PyList(tags_lista), PyTuple(<<PyStr(<<"A", "b">>)>>),
     PyInt(5), PyList(tags_con_numero)}

\* the queries of a search: "a", " A ", "ab", "c", blank
Consultas == {<<"a">>, <<" ", "A", " ">>, <<"a", "b">>, <<"c">>, en_blanco}

\* a dict with an int, a padded name, None and a key that is no column
item_prueba ==
    PyDict([id_autor |-> PyInt(1), nombre_autor |-> PyStr(nombre_A), email |-> PyStr(email_a),
            password_hash |-> PyNone, extra |-> PyStr(<<"x">>)])

\* a dict that lacks three of the four columns
item_suelto == PyDict([nombre_autor |-> PyStr(nombre_B), extra |-> PyInt(7)])

\* the lists saved to the CSV file
DatosCsv == {<<>>, <<item_prueba>>, <<item_suelto, item_prueba>>}

post_prueba == PyDict([id_post |-> PyInt(1), titulo |-> PyStr(titulo_U)])

\* a post as crear_post and agregar_comentario_a_post build it
post_completo ==
    PyDict([id_post |-> PyStr(<<"2">>), id_autor |-> PyStr(<<"1">>), titulo |-> PyStr(<<"T">>),
            contenido |-> PyStr(<<"C">>), fecha_publicacion |-> PyStr(ahora_t),
            tags |-> PyList(<<PyStr(<<"b">>), PyStr(<<"a">>)>>),
            comentarios |-> PyList(<<PyDict([id_comentario |-> PyStr(<<"1">>),
                                             autor |-> PyStr(<<"A">>),
                                             contenido |-> PyStr(<<"C">>),
                                             fecha |-> PyStr(ahora_t),
                                             id_autor |-> PyStr(<<>>)])>>)])

\* the lists saved to the JSON file
DatosJson == {<<>>, <<post_prueba>>, <<post_completo, post_prueba>>}

Formatos == {"csv", "json"}

\* what can become of a file outside the program: it is removed, overwritten
\* with bytes that are no UTF-8, made unreadable, overwritten with something
\* else, emptied, or cut short
Danos(formato, archivo) ==
    {Ausente, Archivo("no_utf8", <<>>), Archivo("ilegible", <<>>)}
    \cup (IF formato = "csv"
          THEN {Archivo("texto", Csv(<<"basura">>, <<<<<<"x">>>>>>)),
                Archivo("texto", Csv(<<>>, <<>>)),
                Archivo("texto", Csv(<<"id_autor", "nombre_au">>, <<>>))}
               \cup (IF archivo.estado = "texto" /\ archivo.contenido.filas # <<>>
                     THEN {Archivo("texto",
                            [archivo.contenido EXCEPT
                                !.filas[Len(archivo.contenido.filas)] = SubSeq(@, 1, Len(@) - 2)])}
                     ELSE {})
          ELSE {Archivo("texto", JInvalido), Archivo("texto", JObj([a |-> JNum(1)]))})

\* a file that holds records, damaged so that they are all still in it: one
\* byte of the CSV file is no longer UTF-8; the list of the JSON file has
\* been wrapped in an object, {"posts": [...]}
Estropeos(formato, archivo) ==
    IF formato = "csv"
    THEN {Archivo("no_utf8", archivo.contenido)}
    ELSE {Archivo("texto", JObj([posts |-> archivo.contenido]))}

\* the ids 1..n as str, and the id 1 as an int
Ids(n) == {PyStr(str(PyInt(k))) : k \in 1..n} \cup {PyInt(1)}

\* the ids 1..n as str
IdsStr(n) == {PyStr(str(PyInt(k))) : k \in 1..n}

\* the acting author of a post operation: 1, "1", "2"
Sesiones == {PyInt(1), PyStr(<<"1">>), PyStr(<<"2">>)}

\* the acting author of a comment operation, absent or supplied:
\* None, "", "1", "2"
SesionesComentario == {PyNone, PyStr(<<>>), PyStr(<<"1">>), PyStr(<<"2">>)}

SinAsignar == [autor |-> {}, post |-> {}, comentario |-> {}]

\* the threads of control that call into the module
Hilos == {1, 2}

\* a thread that is in no call: fd is its open file, "ruta" while the file
\* it opened is the one at the path, "huerfano" once another file has been
\* put in its place, inodo then what it holds; tmp is its temporary file,
\* datos the list it holds in memory, res the outcome of its last call.
\* History: posibles, what a load of the path returns on the contents the
\* path has had since the call began; leido, the list the call loaded;
\* adelantados, the creates of other threads that have saved since this call
\* read the file, each with the record it returned and the list it had loaded.
HiloLibre ==
    [op |-> "ninguna", formato |-> "csv", a |-> <<>>, pc |-> "libre", fd |-> "cerrado",
     inodo |-> Ausente, tmp |-> Ausente, datos |-> <<>>, res |-> Retorna(PyNone),
     posibles |-> {}, leido |-> <<>>, adelantados |-> {}]

----------------------------------------------------------------------------
(* The state machine: one action per domain operation.  The actions leave
   the history of assigned ids to the specification: Historia records it,
   SinHistoria leaves it alone. *)

Init ==
    /\ autores_csv = <<>>
    /\ posts_json = <<>>
    /\ asignados = SinAsignar
    /\ ult = [op |-> "ninguna", a |-> <<>>, res |-> Retorna(PyNone)]
    /\ disco = [csv |-> Ausente, json |-> Ausente]
    /\ hilos = [t \in Hilos |-> HiloLibre]

\* crear_autor, while the ids it gives out stay within max
CrearAutorHasta(max, nombres, emails) ==
    \E nombre_autor \in nombres, email \in emails :
        LET e == crear_autor(autores_csv, nombre_autor, email, <<>>)
        IN  /\ e.ret.t = "ok" => ValorDecimal(e.ret.v.id_autor) <= max
            /\ autores_csv' = e.archivo
            /\ ult' = [op |-> "crear_autor",
                       a |-> [nombre_autor |-> nombre_autor, email |-> email],
                       res |-> e.ret]
            /\ UNCHANGED posts_json

CrearAutor(nombres, emails) == CrearAutorHasta(MaxIdAutor, nombres, emails)

BuscarAutorPorEmail(emails) ==
    \E email \in emails :
        /\ ult' = [op |-> "buscar_autor_por_email", a |-> [email |-> email],
                   res |-> buscar_autor_por_email(autores_csv, email)]
        /\ UNCHANGED <<autores_csv, posts_json>>

ActualizarAutor(ids, datos) ==
    \E id_autor \in ids, datos_nuevos \in datos :
        LET e == actualizar_autor(autores_csv, id_autor, datos_nuevos)
        IN  /\ autores_csv' = e.archivo
            /\ ult' = [op |-> "actualizar_autor",
                       a |-> [id_autor |-> id_autor, datos_nuevos |-> datos_nuevos],
                       res |-> e.ret]
            /\ UNCHANGED posts_json

EliminarAutor(ids) ==
    \E id_autor \in ids :
        LET e == eliminar_autor(autores_csv, id_autor)
        IN  /\ autores_csv' = e.archivo
            /\ ult' = [op |-> "eliminar_autor", a |-> [id_autor |-> id_autor],
                       res |-> e.ret]
            /\ UNCHANGED posts_json

\* crear_post, while the ids it gives out stay within max
CrearPostHasta(max, sesiones, titulos, contenidos, tags_dados, validar) ==
    \E id_autor_en_sesion \in sesiones, titulo \in titulos, contenido \in contenidos, tags \in tags_dados, validar_autor_en \in validar :
        LET e == crear_post(posts_json, autores_csv, id_autor_en_sesion, titulo, contenido, tags, validar_autor_en, PyNone, ahora_t)
        IN  /\ e.ret.t = "ok" => ValorDecimal(e.ret.v.id_post) <= max
            /\ posts_json' = e.archivo
            /\ ult' = [op |-> "crear_post",
                       a |-> [id_autor_en_sesion |-> id_autor_en_sesion,
                              titulo |-> titulo, contenido |-> contenido, tags |-> tags,
                              validar_autor_en |-> validar_autor_en],
                       res |-> e.ret]
            /\ UNCHANGED autores_csv

CrearPost(sesiones, titulos, contenidos, tags_dados, validar) == CrearPostHasta(MaxIdPost, sesiones, titulos, contenidos, tags_dados, validar)

ActualizarPost(ids, sesiones, datos) ==
    \E id_post \in ids, id_autor_en_sesion \in sesiones, datos_nuevos \in datos :
        LET e == actualizar_post(posts_json, id_post, id_autor_en_sesion, datos_nuevos)
        IN  /\ posts_json' = e.archivo
            /\ ult' = [op |-> "actualizar_post",
                       a |-> [id_post |-> id_post,
                              id_autor_en_sesion |-> id_autor_en_sesion,
                              datos_nuevos |-> datos_nuevos],
                       res |-> e.ret]
            /\ UNCHANGED autores_csv

EliminarPost(ids, sesiones) ==
    \E id_post \in ids, id_autor_en_sesion \in sesiones :
        LET e == eliminar_post(posts_json, id_post, id_autor_en_sesion)
        IN  /\ posts_json' = e.archivo
            /\ ult' = [op |-> "eliminar_post",
                       a |-> [id_post |-> id_post,
                              id_autor_en_sesion |-> id_autor_en_sesion],
                       res |-> e.ret]
            /\ UNCHANGED autores_csv

BuscarPostsPorTag(consultas) ==
    \E tag \in consultas :
        /\ ult' = [op |-> "buscar_posts_por_tag", a |-> [tag |-> tag],
                   res |-> buscar_posts_por_tag(posts_json, tag)]
        /\ UNCHANGED <<autores_csv, posts_json>>

InicializarArchivo(formatos) ==
    \E formato \in formatos :
        /\ disco' = [disco EXCEPT ![formato] = inicializar_archivo(formato, @)]
        /\ ult' = [op |-> "inicializar_archivo", a |-> [formato |-> formato],
                   res |-> Retorna(PyNone)]
        /\ UNCHANGED <<autores_csv, posts_json>>

CargarDatos(formatos) ==
    \E formato \in formatos :
        LET e == cargar_datos(formato, disco[formato])
        IN  /\ disco' = [disco EXCEPT ![formato] = e.archivo]
            /\ ult' = [op |-> "cargar_datos", a |-> [formato |-> formato], res |-> e.ret]
            /\ UNCHANGED <<autores_csv, posts_json>>

GuardarDatos(formato, listas) ==
    \E datos \in listas :
        LET e == guardar_datos(formato, disco[formato], datos)
        IN  /\ disco' = [disco EXCEPT ![formato] = e.archivo]
            /\ ult' = [op |-> "guardar_datos", a |-> [formato |-> formato, datos |-> datos],
                       res |-> e.ret]
            /\ UNCHANGED <<autores_csv, posts_json>>

\* the environment damages or removes a file
Danar(formatos) ==
    \E formato \in formatos :
        \E archivo \in Danos(formato, disco[formato]) :
            /\ disco' = [disco EXCEPT ![formato] = archivo]
            /\ ult' = [op |-> "entorno", a |-> [formato |-> formato], res |-> Retorna(PyNone)]
            /\ UNCHANGED <<autores_csv, posts_json>>

AgregarComentario(ids, autores_dados, contenidos, sesiones) ==
    \E id_post \in ids, autor \in autores_dados, contenido \in contenidos, id_autor \in sesiones :
        LET e == agregar_comentario_a_post(posts_json, id_post, autor, contenido, id_autor, ahora_t)
        IN  /\ e.ret.t = "ok" => ValorDecimal(e.ret.v.id_comentario) <= MaxIdComentario
            /\ posts_json' = e.archivo
            /\ ult' = [op |-> "agregar_comentario_a_post",
                       a |-> [id_post |-> id_post, autor |-> autor,
                              contenido |-> contenido, id_autor |-> id_autor],
                       res |-> e.ret]
            /\ UNCHANGED autores_csv

EliminarComentario(ids, ids_comentario, sesiones) ==
    \E id_post \in ids, id_comentario \in ids_comentario, id_autor_en_sesion \in sesiones :
        LET e == eliminar_comentario_de_post(posts_json, id_post, id_comentario, id_autor_en_sesion)
        IN  /\ posts_json' = e.archivo
            /\ ult' = [op |-> "eliminar_comentario_de_post",
                       a |-> [id_post |-> id_post, id_comentario |-> id_comentario,
                              id_autor_en_sesion |-> id_autor_en_sesion],
                       res |-> e.ret]
            /\ UNCHANGED autores_csv

ActualizarComentario(ids, ids_comentario, datos, sesiones) ==
    \E id_post \in ids, id_comentario \in ids_comentario, datos_nuevos \in datos, id_autor_en_sesion \in sesiones :
        LET e == actualizar_comentario_de_post(posts_json, id_post, id_comentario, datos_nuevos, id_autor_en_sesion)
        IN  /\ posts_json' = e.archivo
            /\ ult' = [op |-> "actualizar_comentario_de_post",
                       a |-> [id_post |-> id_post, id_comentario |-> id_comentario,
                              datos_nuevos |-> datos_nuevos,
                              id_autor_en_sesion |-> id_autor_en_sesion],
                       res |-> e.ret]
            /\ UNCHANGED autores_csv

\* main() calls ensure_sistema_y_bienvenida when the program starts, and the
\* welcome screen calls it again
EnsureSistemaYBienvenida ==
    LET e == ensure_sistema_y_bienvenida(autores_csv, posts_json, ahora_t)
    IN  /\ autores_csv' = e.autores
        /\ posts_json' = e.posts
        /\ ult' = [op |-> "ensure_sistema_y_bienvenida", a |-> <<>>, res |-> e.ret]

----------------------------------------------------------------------------
(* Calls in progress at the same time.  A call of the domain layer is a load
   (cargar_datos: the existence test and, on an absent file, the creation of
   the empty file in place; then open and read), a computation on the list in
   memory, and a save (guardar_datos through _escritura_atomica: a temporary
   file is created, written, and put in the place of the target).  Each of
   these steps is one action; the steps of different threads interleave. *)

\* a file of no bytes, as open(..., "w") leaves it
Vacio(formato) == IF formato = "csv" THEN Csv(<<>>, <<>>) ELSE JInvalido

\* the records of the domain layer as the values guardar_datos is given
autor_a_py(autor) == PyDict([k \in DOMAIN autor |-> PyStr(autor[k])])

comentario_a_py(comentario) == PyDict([k \in DOMAIN comentario |-> PyStr(comentario[k])])

post_a_py(post) ==
    PyDict([k \in DOMAIN post |->
        CASE k = "tags" -> PyList([i \in 1..Len(post.tags) |-> PyStr(post.tags[i])])
          [] k = "comentarios" ->
                PyList([i \in 1..Len(post.comentarios) |-> comentario_a_py(post.comentarios[i])])
          [] OTHER -> PyStr(post[k])])

\* the values cargar_datos returns as the records of the domain layer
py_a_comentario(d) == [k \in DOMAIN d.l |-> d.l[k].s]

py_a_post(d) ==
    [k \in DOMAIN d.l |->
        CASE k = "tags" -> [i \in 1..Len(d.l[k].l) |-> d.l[k].l[i].s]
          [] k = "comentarios" -> [i \in 1..Len(d.l[k].l) |-> py_a_comentario(d.l[k].l[i])]
          [] OTHER -> d.l[k].s]

\* the list a create works on, from what cargar_datos returned
lista_cargada(formato, v) ==
    IF formato = "csv" THEN v ELSE [i \in 1..Len(v) |-> py_a_post(v[i])]

\* the list a create hands to guardar_datos
lista_a_guardar(formato, datos) ==
    IF formato = "csv" THEN [i \in 1..Len(datos) |-> autor_a_py(datos[i])]
    ELSE [i \in 1..Len(datos) |-> post_a_py(datos[i])]

\* the write of _escritura_atomica going to the target itself
en_temporal_sobre_destino(destino, contenido) == [destino |-> contenido, tmp |-> contenido]

\* _escritura_atomica writes to a temporary file of its own in the target's
\* directory: the target keeps what it holds
en_temporal(destino, contenido) == [destino |-> destino, tmp |-> contenido]

\* the call of thread t ends with outcome res
Termina(t, res) ==
    /\ hilos' = [hilos EXCEPT ![t].pc = "libre", ![t].fd = "cerrado", ![t].inodo = Ausente,
                              ![t].tmp = Ausente, ![t].datos = <<>>, ![t].res = res]
    /\ ult' = [op |-> hilos[t].op, a |-> hilos[t].a, res |-> res]

\* the call of thread t moves on to position pc
Sigue(t, pc) ==
    /\ hilos' = [hilos EXCEPT ![t].pc = pc]
    /\ UNCHANGED ult

\* a thread begins a call: op on the file of formato, at position pc
Empieza(t, op, formato, a, pc, datos) ==
    hilos' = [hilos EXCEPT ![t] =
                [HiloLibre EXCEPT !.op = op, !.formato = formato, !.a = a, !.pc = pc,
                                  !.datos = datos,
                                  !.posibles = IF op = "cargar_datos"
                                               THEN {cargar_datos(formato, disco[formato]).ret}
                                               ELSE {}]]

\* the creates in progress on the file of formato
CreandoEn(formato) ==
    {t \in Hilos : hilos[t].pc # "libre" /\ hilos[t].formato = formato
                   /\ hilos[t].op \in {"crear_autor", "crear_post"}}

\* room for one more record in the file of formato
CabeEn(formato) ==
    LET e == cargar_datos(formato, disco[formato])
        n == IF e.ret.t = "ok" THEN Len(e.ret.v) ELSE 0
    IN  n + Cardinality(CreandoEn(formato)) < (IF formato = "csv" THEN MaxIdAutor ELSE MaxIdPost)

LanzarCargar(ts, formatos) ==
    \E t \in ts, formato \in formatos :
        /\ hilos[t].pc = "libre"
        /\ Empieza(t, "cargar_datos", formato, [hilo |-> t, formato |-> formato], "existe", <<>>)
        /\ UNCHANGED <<autores_csv, posts_json, disco, ult>>

LanzarGuardar(ts, formato, listas) ==
    \E t \in ts, datos \in listas :
        /\ hilos[t].pc = "libre"
        /\ Empieza(t, "guardar_datos", formato, [hilo |-> t, formato |-> formato, datos |-> datos], "abrir_tmp", datos)
        /\ UNCHANGED <<autores_csv, posts_json, disco, ult>>

\* crear_autor validates its arguments before it loads the file
LanzarCrearAutor(ts, nombres, emails) ==
    \E t \in ts, nombre_autor \in nombres, email \in emails :
        LET a == [hilo |-> t, nombre_autor |-> nombre_autor, email |-> email]
        IN  /\ hilos[t].pc = "libre"
            /\ CabeEn("csv")
            /\ IF ~_es_str_no_vacio(nombre_autor) \/ _validar_email_falla(email)
               THEN /\ hilos' = [hilos EXCEPT ![t] =
                                    [HiloLibre EXCEPT !.op = "crear_autor", !.a = a,
                                                      !.res = Lanza("ValidacionError")]]
                    /\ ult' = [op |-> "crear_autor", a |-> a, res |-> Lanza("ValidacionError")]
               ELSE /\ Empieza(t, "crear_autor", "csv", a, "existe", <<>>)
                    /\ UNCHANGED ult
            /\ UNCHANGED <<autores_csv, posts_json, disco>>

\* crear_post validates title and body before it loads the file
LanzarCrearPost(ts, sesiones, titulos, contenidos) ==
    \E t \in ts, id_autor_en_sesion \in sesiones, titulo \in titulos, contenido \in contenidos :
        LET a == [hilo |-> t, id_autor_en_sesion |-> id_autor_en_sesion, titulo |-> titulo, contenido |-> contenido]
        IN  /\ hilos[t].pc = "libre"
            /\ CabeEn("json")
            /\ IF ~_es_str_no_vacio(titulo) \/ ~_es_str_no_vacio(contenido)
               THEN /\ hilos' = [hilos EXCEPT ![t] =
                                    [HiloLibre EXCEPT !.op = "crear_post", !.formato = "json",
                                                      !.a = a, !.res = Lanza("ValidacionError")]]
                    /\ ult' = [op |-> "crear_post", a |-> a, res |-> Lanza("ValidacionError")]
               ELSE /\ Empieza(t, "crear_post", "json", a, "existe", <<>>)
                    /\ UNCHANGED ult
            /\ UNCHANGED <<autores_csv, posts_json, disco>>

\* inicializar_archivo, the test: os.path.exists(filepath)
Existe(ts) ==
    \E t \in ts :
        /\ hilos[t].pc = "existe"
        /\ Sigue(t, IF disco[hilos[t].formato].estado = "ausente" THEN "abrir_w" ELSE "abrir_r")
        /\ UNCHANGED <<autores_csv, posts_json, disco>>

\* inicializar_archivo, open(filepath, mode="w"): the file at the path is
\* created, or cut to no bytes if by now there is one
AbrirW(ts) ==
    \E t \in ts :
        /\ hilos[t].pc = "abrir_w"
        /\ disco' = [disco EXCEPT ![hilos[t].formato] = Archivo("texto", Vacio(hilos[t].formato))]
        /\ hilos' = [hilos EXCEPT ![t].pc = "escribir", ![t].fd = "ruta"]
        /\ UNCHANGED <<autores_csv, posts_json, ult>>

\* inicializar_archivo, the header row or the empty list is written and the
\* file closed; the bytes go to the file that was opened, which is no longer
\* the one at the path if a save has replaced it
EscribirCabecera(ts) ==
    \E t \in ts :
        /\ hilos[t].pc = "escribir"
        /\ disco' = IF hilos[t].fd = "ruta"
                    THEN [disco EXCEPT ![hilos[t].formato] = inicializar_archivo(hilos[t].formato, Ausente)]
                    ELSE disco
        /\ hilos' = [hilos EXCEPT ![t].pc = "abrir_r", ![t].fd = "cerrado", ![t].inodo = Ausente]
        /\ UNCHANGED <<autores_csv, posts_json, ult>>

\* cargar_datos, open(filepath, mode="r"); FileNotFoundError is caught and
\* gives the empty list, any other error of open reaches the caller
AbrirR(ts) ==
    \E t \in ts :
        LET archivo == disco[hilos[t].formato]
        IN  /\ hilos[t].pc = "abrir_r"
            /\ CASE archivo.estado = "ausente" ->
                        IF hilos[t].op = "cargar_datos" THEN Termina(t, Retorna(<<>>))
                        ELSE Sigue(t, "calcular")
                 [] archivo.estado = "ilegible" -> Termina(t, Lanza("OSError"))
                 [] OTHER -> /\ hilos' = [hilos EXCEPT ![t].pc = "leer", ![t].fd = "ruta"]
                             /\ UNCHANGED ult
            /\ UNCHANGED <<autores_csv, posts_json, disco>>

\* cargar_datos, the open file is read and closed and the list returned to
\* the caller: to the program for a load, to the create for a create
Leer(ts) ==
    \E t \in ts :
        LET formato == hilos[t].formato
            archivo == IF hilos[t].fd = "ruta" THEN disco[formato] ELSE hilos[t].inodo
            e == cargar_datos(formato, archivo)
        IN  /\ hilos[t].pc = "leer"
            /\ IF hilos[t].op = "cargar_datos" THEN Termina(t, e.ret)
               ELSE /\ hilos' = [hilos EXCEPT ![t].pc = "calcular", ![t].fd = "cerrado",
                                              ![t].inodo = Ausente,
                                              ![t].datos = lista_cargada(formato, e.ret.v),
                                              ![t].leido = lista_cargada(formato, e.ret.v)]
                    /\ UNCHANGED ult
            /\ UNCHANGED <<autores_csv, posts_json, disco>>

\* the create working on what the file holds at this moment, not on the list
\* it loaded
Calcular_con_lo_guardado(ts) ==
    \E t \in ts :
        LET h == hilos[t]
            ahora == lista_cargada(h.formato, cargar_datos(h.formato, disco[h.formato]).ret.v)
            e == IF h.op = "crear_autor"
                 THEN crear_autor(ahora, h.a.nombre_autor, h.a.email, <<>>)
                 ELSE crear_post(ahora, <<>>, h.a.id_autor_en_sesion, h.a.titulo, h.a.contenido, PyNone, FALSE, PyNone, ahora_t)
        IN  /\ h.pc = "calcular"
            /\ IF e.ret.t = "err" THEN Termina(t, e.ret)
               ELSE /\ hilos' = [hilos EXCEPT ![t].pc = "abrir_tmp", ![t].res = e.ret,
                                              ![t].datos = lista_a_guardar(h.formato, e.archivo)]
                    /\ UNCHANGED ult
            /\ UNCHANGED <<autores_csv, posts_json, disco>>

\* the create, on the list it has loaded: the checks against the stored
\* records, the new id, the new record appended
Calcular(ts) ==
    \E t \in ts :
        LET h == hilos[t]
            e == IF h.op = "crear_autor"
                 THEN crear_autor(h.datos, h.a.nombre_autor, h.a.email, <<>>)
                 ELSE crear_post(h.datos, <<>>, h.a.id_autor_en_sesion, h.a.titulo, h.a.contenido, PyNone, FALSE, PyNone, ahora_t)
        IN  /\ h.pc = "calcular"
            /\ IF e.ret.t = "err" THEN Termina(t, e.ret)
               ELSE /\ hilos' = [hilos EXCEPT ![t].pc = "abrir_tmp", ![t].res = e.ret,
                                              ![t].datos = lista_a_guardar(h.formato, e.archivo)]
                    /\ UNCHANGED ult
            /\ UNCHANGED <<autores_csv, posts_json, disco>>

\* _escritura_atomica, tempfile.NamedTemporaryFile(...): a file of no bytes
AbrirTmp(ts) ==
    \E t \in ts :
        LET formato == hilos[t].formato
            r == en_temporal(disco[formato], Archivo("texto", Vacio(formato)))
        IN  /\ hilos[t].pc = "abrir_tmp"
            /\ disco' = [disco EXCEPT ![formato] = r.destino]
            /\ hilos' = [hilos EXCEPT ![t].pc = "escribir_tmp", ![t].tmp = r.tmp]
            /\ UNCHANGED <<autores_csv, posts_json, ult>>

\* _escritura_atomica, tmp.write(contenido) and the close of the with block
EscribirTmp(ts) ==
    \E t \in ts :
        LET formato == hilos[t].formato
            r == en_temporal(disco[formato], guardar_datos(formato, disco[formato], hilos[t].datos).archivo)
        IN  /\ hilos[t].pc = "escribir_tmp"
            /\ disco' = [disco EXCEPT ![formato] = r.destino]
            /\ hilos' = [hilos EXCEPT ![t].pc = "replace", ![t].tmp = r.tmp]
            /\ UNCHANGED <<autores_csv, posts_json, ult>>

\* thread u after thread t has put a new file at the path of formato: a file
\* u holds open is no longer the one at the path
TrasReemplazo(t, u, formato, nuevo) ==
    LET h == hilos[u]
        fuera == h.fd = "ruta"
        pasado == h.pc \in {"calcular", "abrir_tmp", "escribir_tmp", "replace"}
    IN  IF u = t \/ h.pc = "libre" \/ h.formato # formato THEN h
        ELSE [h EXCEPT !.fd = IF fuera THEN "huerfano" ELSE @,
                       !.inodo = IF fuera THEN disco[formato] ELSE @,
                       !.posibles = IF h.op = "cargar_datos"
                                    THEN @ \cup {cargar_datos(formato, nuevo).ret} ELSE @,
                       !.adelantados = IF pasado /\ hilos[t].op # "guardar_datos"
                                       THEN @ \cup {[res |-> hilos[t].res.v, leido |-> hilos[t].leido]}
                                       ELSE @]

\* _escritura_atomica, os.replace(tmp_path, path_destino), and the return
Reemplazar(ts) ==
    \E t \in ts :
        LET formato == hilos[t].formato
            nuevo == hilos[t].tmp
            res == IF hilos[t].op = "guardar_datos" THEN Retorna(PyNone) ELSE hilos[t].res
        IN  /\ hilos[t].pc = "replace"
            /\ disco' = [disco EXCEPT ![formato] = nuevo]
            /\ hilos' = [u \in Hilos |->
                            IF u = t
                            THEN [hilos[t] EXCEPT !.pc = "libre", !.tmp = Ausente, !.datos = <<>>,
                                                  !.res = res]
                            ELSE TrasReemplazo(t, u, formato, nuevo)]
            /\ ult' = [op |-> hilos[t].op, a |-> hilos[t].a, res |-> res]
            /\ UNCHANGED <<autores_csv, posts_json>>

\* between two calls, the environment damages a file that holds records
Estropear(formatos) ==
    \E formato \in formatos :
        \E archivo \in Estropeos(formato, disco[formato]) :
            /\ \A t \in Hilos : hilos[t].pc = "libre"
            /\ disco[formato].estado = "texto"
            /\ cargar_datos(formato, disco[formato]).ret.v # <<>>
            /\ disco' = [disco EXCEPT ![formato] = archivo]
            /\ ult' = [op |-> "entorno", a |-> [formato |-> formato], res |-> Retorna(PyNone)]
            /\ UNCHANGED <<autores_csv, posts_json, hilos>>

----------------------------------------------------------------------------
(* Specifications *)

\* the comments of a deleted post are a collection that is gone
SinPost(pares, id_post_str) == {par \in pares : par[1] # id_post_str}

\* the ids the creates have returned so far, after the call in ult'
Historia ==
    asignados' =
        CASE ult'.op = "crear_autor" /\ ult'.res.t = "ok" ->
                [asignados EXCEPT !.autor = @ \cup {ult'.res.v.id_autor}]
          [] ult'.op = "crear_post" /\ ult'.res.t = "ok" ->
                [asignados EXCEPT !.post = @ \cup {ult'.res.v.id_post}]
          [] ult'.op = "agregar_comentario_a_post" /\ ult'.res.t = "ok" ->
                [asignados EXCEPT !.comentario =
                    @ \cup {<<str(ult'.a.id_post), ult'.res.v.id_comentario>>}]
          [] ult'.op = "eliminar_post" /\ ult'.res.t = "ok" /\ ult'.res.v ->
                [asignados EXCEPT !.comentario = SinPost(@, str(ult'.a.id_post))]
          [] OTHER -> asignados

SinHistoria == UNCHANGED asignados

\* the domain operations work on the blog's own two files
SinDisco == UNCHANGED disco

\* one call at a time: no call is in progress
SinHilos == UNCHANGED hilos

\* the author operations, with names and emails in every shape
NextAutores ==
    \/ CrearAutor({nombre_A, en_blanco}, {email_a, email_A, email_c, email_malo}) /\ Historia /\ SinDisco /\ SinHilos
    \/ BuscarAutorPorEmail({email_a, email_A, email_malo}) /\ Historia /\ SinDisco /\ SinHilos
    \/ ActualizarAutor(Ids(MaxIdAutor), {<<>>, [nombre_autor |-> nombre_B], [nombre_autor |-> en_blanco], [email |-> email_A], [email |-> email_c], [email |-> email_malo], [nombre_autor |-> nombre_B, email |-> email_c]}) /\ Historia /\ SinDisco /\ SinHilos
    \/ EliminarAutor(Ids(MaxIdAutor)) /\ Historia /\ SinDisco /\ SinHilos

SpecAutores == Init /\ [][NextAutores]_vars

\* the post operations, by the owner and by others
NextPosts ==
    \/ CrearPost(Sesiones, {titulo_T, en_blanco}, {contenido_C}, {PyNone}, {FALSE}) /\ Historia /\ SinDisco /\ SinHilos
    \/ ActualizarPost(Ids(MaxIdPost), Sesiones, {[titulo |-> titulo_U], [titulo |-> en_blanco], [contenido |-> contenido_D]}) /\ Historia /\ SinDisco /\ SinHilos
    \/ EliminarPost(Ids(MaxIdPost), Sesiones) /\ Historia /\ SinDisco /\ SinHilos

SpecPosts == Init /\ [][NextPosts]_vars

\* the comment operations, on a blog that holds one post at a time
NextComentarios ==
    \/ (posts_json = <<>> /\ CrearPost({PyStr(<<"1">>)}, {titulo_T}, {contenido_C}, {PyNone}, {FALSE}) /\ Historia /\ SinDisco /\ SinHilos)
    \/ EliminarPost({PyStr(<<"1">>)}, {PyStr(<<"1">>)}) /\ Historia /\ SinDisco /\ SinHilos
    \/ AgregarComentario(IdsStr(2), {nombre_A}, {contenido_C}, {PyNone, PyStr(<<"1">>)}) /\ Historia /\ SinDisco /\ SinHilos
    \/ EliminarComentario(IdsStr(2), IdsStr(MaxIdComentario), SesionesComentario) /\ Historia /\ SinDisco /\ SinHilos
    \/ ActualizarComentario(IdsStr(2), IdsStr(MaxIdComentario), {[contenido |-> contenido_D], [contenido |-> en_blanco]}, SesionesComentario) /\ Historia /\ SinDisco /\ SinHilos

SpecComentarios == Init /\ [][NextComentarios]_vars

\* the persistence layer on its two files, which the environment may damage
NextGestor ==
    \/ InicializarArchivo(Formatos) /\ SinHistoria /\ SinHilos
    \/ CargarDatos(Formatos) /\ SinHistoria /\ SinHilos
    \/ GuardarDatos("csv", DatosCsv) /\ SinHistoria /\ SinHilos
    \/ GuardarDatos("json", DatosJson) /\ SinHistoria /\ SinHilos
    \/ Danar(Formatos) /\ SinHistoria /\ SinHilos

SpecGestor == Init /\ [][NextGestor]_vars

\* the post operations with tags in every shape, and the search by tag
NextTags ==
    \/ CrearPost({PyStr(<<"1">>)}, {titulo_T}, {contenido_C}, TagsDados, {FALSE}) /\ SinHistoria /\ SinDisco /\ SinHilos
    \/ ActualizarPost(IdsStr(MaxIdPost), {PyStr(<<"1">>), PyStr(<<"2">>)}, {[tags |-> tags] : tags \in TagsDados}) /\ SinHistoria /\ SinDisco /\ SinHilos
    \/ EliminarPost(IdsStr(MaxIdPost), {PyStr(<<"1">>)}) /\ SinHistoria /\ SinDisco /\ SinHilos
    \/ BuscarPostsPorTag(Consultas) /\ SinHistoria /\ SinDisco /\ SinHilos

SpecTags == Init /\ [][NextTags]_vars

\* authors come and go while posts are created with and without the
\* validar_autor_en option
NextValidarAutor ==
    \/ CrearAutor({nombre_A}, {email_a, email_c}) /\ SinHistoria /\ SinDisco /\ SinHilos
    \/ EliminarAutor(IdsStr(MaxIdAutor)) /\ SinHistoria /\ SinDisco /\ SinHilos
    \/ CrearPost(Sesiones, {titulo_T, en_blanco}, {contenido_C}, {PyNone, PyInt(5)}, {TRUE, FALSE}) /\ SinHistoria /\ SinDisco /\ SinHilos

SpecValidarAutor == Init /\ [][NextValidarAutor]_vars

\* the number of stored authors, posts and comments
RECURSIVE TotalComentarios(_)
TotalComentarios(posts) ==
    IF posts = <<>> THEN 0
    ELSE Len(Head(posts).comentarios) + TotalComentarios(Tail(posts))

TotalRegistros == Len(autores_csv) + Len(posts_json) + TotalComentarios(posts_json)

Cabe == TotalRegistros < MaxRegistros

\* fewer posts and comments than MaxRegistros are stored
CabenPosts == Len(posts_json) + TotalComentarios(posts_json) < MaxRegistros

\* updates of posts that hold tags and comments, on at most MaxRegistros
\* posts and comments
NextMarco ==
    \/ (CabenPosts /\ CrearPost({PyStr(<<"1">>)}, {titulo_T}, {contenido_C}, {PyNone}, {FALSE}) /\ SinHistoria /\ SinDisco /\ SinHilos)
    \/ (CabenPosts /\ AgregarComentario(IdsStr(MaxIdPost), {nombre_A}, {contenido_C}, {PyNone}) /\ SinHistoria /\ SinDisco /\ SinHilos)
    \/ ActualizarPost(IdsStr(MaxIdPost), {PyStr(<<"1">>)}, {<<>>, [titulo |-> titulo_U], [tags |-> PyList(tags_lista)], [titulo |-> titulo_U, contenido |-> contenido_D], [contenido |-> en_blanco], [titulo |-> titulo_U, id_autor |-> <<"2">>]}) /\ SinHistoria /\ SinDisco /\ SinHilos

SpecMarco == Init /\ [][NextMarco]_vars

\* comments added to and deleted from several posts, as many comments at a
\* time as there can be posts
NextComentariosPorPost ==
    \/ CrearPost({PyStr(<<"1">>)}, {titulo_T}, {contenido_C}, {PyNone}, {FALSE}) /\ SinHistoria /\ SinDisco /\ SinHilos
    \/ (TotalComentarios(posts_json) < MaxIdPost /\ AgregarComentario(IdsStr(MaxIdPost), {nombre_A, en_blanco}, {contenido_C}, {PyNone, PyStr(<<"1">>)}) /\ SinHistoria /\ SinDisco /\ SinHilos)
    \/ EliminarComentario(IdsStr(MaxIdPost), IdsStr(MaxIdComentario), {PyNone}) /\ SinHistoria /\ SinDisco /\ SinHilos

SpecComentariosPorPost == Init /\ [][NextComentariosPorPost]_vars

\* every operation that writes, on at most MaxRegistros records
Next ==
    \/ (Cabe /\ CrearAutor({nombre_A}, {email_a, email_c}) /\ SinHistoria /\ SinDisco /\ SinHilos)
    \/ ActualizarAutor(IdsStr(MaxIdAutor), {[nombre_autor |-> nombre_B, email |-> email_A]}) /\ SinHistoria /\ SinDisco /\ SinHilos
    \/ EliminarAutor(IdsStr(MaxIdAutor)) /\ SinHistoria /\ SinDisco /\ SinHilos
    \/ (Cabe /\ CrearPost({PyStr(<<"1">>)}, {titulo_T}, {contenido_C}, {PyNone}, {TRUE, FALSE}) /\ SinHistoria /\ SinDisco /\ SinHilos)
    \/ ActualizarPost(IdsStr(MaxIdPost), {PyStr(<<"1">>)}, {[titulo |-> titulo_U]}) /\ SinHistoria /\ SinDisco /\ SinHilos
    \/ EliminarPost(IdsStr(MaxIdPost), {PyStr(<<"1">>)}) /\ SinHistoria /\ SinDisco /\ SinHilos
    \/ (Cabe /\ AgregarComentario(IdsStr(MaxIdPost), {nombre_A}, {contenido_C}, {PyNone}) /\ SinHistoria /\ SinDisco /\ SinHilos)
    \/ ActualizarComentario(IdsStr(MaxIdPost), IdsStr(MaxIdComentario), {[contenido |-> contenido_D]}, {PyNone}) /\ SinHistoria /\ SinDisco /\ SinHilos
    \/ EliminarComentario(IdsStr(MaxIdPost), IdsStr(MaxIdComentario), {PyNone}) /\ SinHistoria /\ SinDisco /\ SinHilos

Spec == Init /\ [][Next]_vars

\* authors register and delete their accounts; every post is created with
\* the validar_autor_en option, and updated and deleted by whoever is in session
NextPropiedad ==
    \/ (Cabe /\ CrearAutor({nombre_A}, {email_a, email_c}) /\ SinHistoria /\ SinDisco /\ SinHilos)
    \/ EliminarAutor(IdsStr(MaxIdAutor)) /\ SinHistoria /\ SinDisco /\ SinHilos
    \/ (Cabe /\ CrearPost(Sesiones, {titulo_T}, {contenido_C}, {PyNone}, {TRUE}) /\ SinHistoria /\ SinDisco /\ SinHilos)
    \/ ActualizarPost(IdsStr(MaxIdPost), Sesiones, {[titulo |-> titulo_U]}) /\ SinHistoria /\ SinDisco /\ SinHilos
    \/ EliminarPost(IdsStr(MaxIdPost), Sesiones) /\ SinHistoria /\ SinDisco /\ SinHilos

SpecPropiedad == Init /\ [][NextPropiedad]_vars

\* every operation that can raise, with arguments that pass and arguments
\* that fail each of its checks, on at most MaxRegistros records
NextFallos ==
    \/ (Cabe /\ CrearAutor({nombre_A, en_blanco}, {email_a}) /\ SinHistoria /\ SinDisco /\ SinHilos)
    \/ ActualizarAutor(IdsStr(MaxIdAutor), {[email |-> email_c], [nombre_autor |-> nombre_B, email |-> email_malo]}) /\ SinHistoria /\ SinDisco /\ SinHilos
    \/ EliminarAutor(IdsStr(MaxIdAutor)) /\ SinHistoria /\ SinDisco /\ SinHilos
    \/ (Cabe /\ CrearPost({PyStr(<<"1">>)}, {titulo_T, en_blanco}, {contenido_C}, {PyNone}, {TRUE, FALSE}) /\ SinHistoria /\ SinDisco /\ SinHilos)
    \/ ActualizarPost(IdsStr(MaxIdPost), {PyStr(<<"1">>), PyStr(<<"2">>)}, {[titulo |-> titulo_U, contenido |-> en_blanco], [tags |-> PyInt(5)]}) /\ SinHistoria /\ SinDisco /\ SinHilos
    \/ EliminarPost(IdsStr(MaxIdPost), {PyStr(<<"1">>), PyStr(<<"2">>)}) /\ SinHistoria /\ SinDisco /\ SinHilos
    \/ (Cabe /\ AgregarComentario(IdsStr(MaxIdPost), {nombre_A, en_blanco}, {contenido_C}, {PyStr(<<"1">>)}) /\ SinHistoria /\ SinDisco /\ SinHilos)
    \/ ActualizarComentario(IdsStr(MaxIdPost), IdsStr(MaxIdComentario), {[contenido |-> en_blanco]}, {PyStr(<<"1">>), PyStr(<<"2">>)}) /\ SinHistoria /\ SinDisco /\ SinHilos
    \/ EliminarComentario(IdsStr(MaxIdPost), IdsStr(MaxIdComentario), {PyStr(<<"1">>), PyStr(<<"2">>)}) /\ SinHistoria /\ SinDisco /\ SinHilos

SpecFallos == Init /\ [][NextFallos]_vars

\* every operation that writes, on collections of up to MaxRegistros authors,
\* or of up to MaxRegistros posts and MaxIdComentario comments, MaxRegistros
\* + 1 records in all; a behaviour works on one of the two files, comments
\* are those of post 1, and the record updated is the second created
NextOrden ==
    \/ (posts_json = <<>> /\ CrearAutorHasta(MaxRegistros, {nombre_A}, {email_a, email_c, email_d}) /\ SinHistoria /\ SinDisco /\ SinHilos)
    \/ ActualizarAutor({PyStr(<<"2">>)}, {[nombre_autor |-> nombre_B]}) /\ SinHistoria /\ SinDisco /\ SinHilos
    \/ EliminarAutor(IdsStr(MaxRegistros)) /\ SinHistoria /\ SinDisco /\ SinHilos
    \/ (autores_csv = <<>> /\ TotalRegistros <= MaxRegistros /\ CrearPostHasta(MaxRegistros, {PyStr(<<"1">>)}, {titulo_T}, {contenido_C}, {PyNone}, {FALSE}) /\ SinHistoria /\ SinDisco /\ SinHilos)
    \/ ActualizarPost({PyStr(<<"2">>)}, {PyStr(<<"1">>)}, {[titulo |-> titulo_U]}) /\ SinHistoria /\ SinDisco /\ SinHilos
    \/ EliminarPost(IdsStr(MaxRegistros), {PyStr(<<"1">>)}) /\ SinHistoria /\ SinDisco /\ SinHilos
    \/ (TotalRegistros <= MaxRegistros /\ AgregarComentario({PyStr(<<"1">>)}, {nombre_A}, {contenido_C}, {PyNone}) /\ SinHistoria /\ SinDisco /\ SinHilos)
    \/ ActualizarComentario({PyStr(<<"1">>)}, {PyStr(<<"2">>)}, {[contenido |-> contenido_D]}, {PyNone}) /\ SinHistoria /\ SinDisco /\ SinHilos
    \/ EliminarComentario({PyStr(<<"1">>)}, IdsStr(MaxIdComentario), {PyNone}) /\ SinHistoria /\ SinDisco /\ SinHilos

SpecOrden == Init /\ [][NextOrden]_vars

\* the system author is stored: the program has started
Arrancado == \E i \in 1..Len(autores_csv) : autores_csv[i].email = SISTEMA_EMAIL

\* the id of the stored author with the system email
IdSistema == autores_csv[CHOOSE i \in 1..Len(autores_csv) : autores_csv[i].email = SISTEMA_EMAIL].id_autor

\* the users in session: the stored authors other than the system author
Usuarios == {s \in IdsStr(MaxIdAutor) : Arrancado /\ s.s # IdSistema}

\* the program starts, and started again and again; in between, users
\* register, publish and tag posts as they like, edit and delete their own
\* posts, and delete their accounts
NextBienvenida ==
    \/ EnsureSistemaYBienvenida /\ SinHistoria /\ SinDisco /\ SinHilos
    \/ (Arrancado /\ CrearAutor({nombre_A}, {email_a}) /\ SinHistoria /\ SinDisco /\ SinHilos)
    \/ (Arrancado /\ EliminarAutor(Usuarios) /\ SinHistoria /\ SinDisco /\ SinHilos)
    \/ (Arrancado /\ CrearPost(Usuarios, {titulo_T, titulo_U}, {contenido_C}, {PyNone, PyStr(BIENVENIDA_TAG)}, {TRUE}) /\ SinHistoria /\ SinDisco /\ SinHilos)
    \/ (Arrancado /\ ActualizarPost(IdsStr(MaxIdPost), Usuarios, {[tags |-> PyStr(BIENVENIDA_TAG)], [titulo |-> titulo_U], [contenido |-> contenido_D]}) /\ SinHistoria /\ SinDisco /\ SinHilos)
    \/ (Arrancado /\ EliminarPost(IdsStr(MaxIdPost), Usuarios) /\ SinHistoria /\ SinDisco /\ SinHilos)

SpecBienvenida == Init /\ [][NextBienvenida]_vars

\* one thread saves and the other loads, each both files, again and again
NextAtomica ==
    \/ LanzarGuardar({1}, "csv", DatosCsv) /\ SinHistoria
    \/ LanzarGuardar({1}, "json", DatosJson) /\ SinHistoria
    \/ LanzarCargar({2}, Formatos) /\ SinHistoria
    \/ Existe(Hilos) /\ SinHistoria
    \/ AbrirW(Hilos) /\ SinHistoria
    \/ EscribirCabecera(Hilos) /\ SinHistoria
    \/ AbrirR(Hilos) /\ SinHistoria
    \/ Leer(Hilos) /\ SinHistoria
    \/ AbrirTmp(Hilos) /\ SinHistoria
    \/ EscribirTmp(Hilos) /\ SinHistoria
    \/ Reemplazar(Hilos) /\ SinHistoria

SpecAtomica == Init /\ [][NextAtomica]_vars

\* the calls in progress are all on the file of formato, and the other file
\* has not been created
SoloEn(formato) ==
    /\ \A otro \in Formatos \ {formato} : disco[otro].estado = "ausente"
    /\ \A t \in Hilos : hilos[t].pc = "libre" \/ hilos[t].formato = formato

\* two threads create authors, or create posts, each call step by step
NextCarrera ==
    \/ (SoloEn("csv") /\ LanzarCrearAutor(Hilos, {nombre_A, en_blanco}, {email_a, email_c}) /\ SinHistoria)
    \/ (SoloEn("json") /\ LanzarCrearPost(Hilos, {PyStr(<<"1">>), PyStr(<<"2">>)}, {titulo_T, en_blanco}, {contenido_C}) /\ SinHistoria)
    \/ Existe(Hilos) /\ SinHistoria
    \/ AbrirW(Hilos) /\ SinHistoria
    \/ EscribirCabecera(Hilos) /\ SinHistoria
    \/ AbrirR(Hilos) /\ SinHistoria
    \/ Leer(Hilos) /\ SinHistoria
    \/ Calcular(Hilos) /\ SinHistoria
    \/ AbrirTmp(Hilos) /\ SinHistoria
    \/ EscribirTmp(Hilos) /\ SinHistoria
    \/ Reemplazar(Hilos) /\ SinHistoria

SpecCarrera == Init /\ [][NextCarrera]_vars

\* one thread creates authors, or posts, one call after the other, each call
\* step by step; between two calls the file may be damaged
NextDano ==
    \/ (SoloEn("csv") /\ LanzarCrearAutor({1}, {nombre_A}, {email_a, email_c}) /\ SinHistoria)
    \/ (SoloEn("json") /\ LanzarCrearPost({1}, {PyStr(<<"1">>)}, {titulo_T, titulo_U}, {contenido_C}) /\ SinHistoria)
    \/ Existe({1}) /\ SinHistoria
    \/ AbrirW({1}) /\ SinHistoria
    \/ EscribirCabecera({1}) /\ SinHistoria
    \/ AbrirR({1}) /\ SinHistoria
    \/ Leer({1}) /\ SinHistoria
    \/ Calcular({1}) /\ SinHistoria
    \/ AbrirTmp({1}) /\ SinHistoria
    \/ EscribirTmp({1}) /\ SinHistoria
    \/ Reemplazar({1}) /\ SinHistoria
    \/ Estropear(Formatos) /\ SinHistoria

SpecDano == Init /\ [][NextDano]_vars

\* one thread creates authors, or posts, while the other loads the same file,
\* each call step by step
NextLectura ==
    \/ (SoloEn("csv") /\ LanzarCrearAutor({1}, {nombre_A}, {email_a, email_c}) /\ SinHistoria)
    \/ (SoloEn("json") /\ LanzarCrearPost({1}, {PyStr(<<"1">>)}, {titulo_T, titulo_U}, {contenido_C}) /\ SinHistoria)
    \/ (SoloEn("csv") /\ LanzarCargar({2}, {"csv"}) /\ SinHistoria)
    \/ (SoloEn("json") /\ LanzarCargar({2}, {"json"}) /\ SinHistoria)
    \/ Existe(Hilos) /\ SinHistoria
    \/ AbrirW(Hilos) /\ SinHistoria
    \/ EscribirCabecera(Hilos) /\ SinHistoria
    \/ AbrirR(Hilos) /\ SinHistoria
    \/ Leer(Hilos) /\ SinHistoria
    \/ Calcular(Hilos) /\ SinHistoria
    \/ AbrirTmp(Hilos) /\ SinHistoria
    \/ EscribirTmp(Hilos) /\ SinHistoria
    \/ Reemplazar(Hilos) /\ SinHistoria

SpecLectura == Init /\ [][NextLectura]_vars

----------------------------------------------------------------------------
(* Claims about authors, under SpecAutores *)

\* C1: an id once assigned by a create (to an author, to a post, to a comment
\* of a given post) is never assigned again by a later create of the same
\* collection, also when the deleted record had the largest id.
C1_IdNuncaReasignado ==
    [][/\ (ult'.op = "crear_autor" /\ ult'.res.t = "ok")
            => ult'.res.v.id_autor \notin asignados.autor
       /\ (ult'.op = "crear_post" /\ ult'.res.t = "ok")
            => ult'.res.v.id_post \notin asignados.post
       /\ (ult'.op = "agregar_comentario_a_post" /\ ult'.res.t = "ok")
            => <<str(ult'.a.id_post), ult'.res.v.id_comentario>>
                    \notin asignados.comentario]_vars

\* C3: no two stored authors have emails that are equal ignoring letter case.
C3_EmailsUnicos ==
    \A i, j \in 1..Len(autores_csv) :
        i # j => lower(autores_csv[i].email) # lower(autores_csv[j].email)

\* two authors are stored and the last call was turned down for its email
C3_Testigo ==
    /\ Len(autores_csv) = 2
    /\ ult.op = "actualizar_autor"
    /\ ult.res = Lanza("EmailDuplicado")

\* the email equals, ignoring letter case, the email of a stored author
EmailYaGuardado(archivo, email) ==
    \E i \in 1..Len(archivo) : lower(archivo[i].email) = lower(email)

\* C4: create_author with an email that equals, ignoring letter case, the
\* email of a stored author fails and adds no author; the failure is
\* DuplicateEmail on every call whose name is not blank (a blank name is
\* turned down before the emails are looked at).
C4_DuplicadoRechazado ==
    [][(ult'.op = "crear_autor" /\ EmailYaGuardado(autores_csv, ult'.a.email))
        => /\ ult'.res.t = "err"
           /\ autores_csv' = autores_csv
           /\ _es_str_no_vacio(ult'.a.nombre_autor)
                => ult'.res = Lanza("EmailDuplicado")]_vars

\* a create with the stored email in another letter case was turned down
C4_Testigo ==
    /\ ult.op = "crear_autor"
    /\ ult.a.email = email_A
    /\ ult.res = Lanza("EmailDuplicado")
    /\ \E i \in 1..Len(autores_csv) : autores_csv[i].email = email_a

UpperChar(c) ==
    IF EsMinuscula(c)
    THEN Mayusculas[CHOOSE i \in 1..Len(Minusculas) : Minusculas[i] = c]
    ELSE c

\* the strings that differ from s in the case of letters only
RECURSIVE Variantes(_)
Variantes(s) ==
    IF s = <<>> THEN {<<>>}
    ELSE {<<c>> \o r : c \in {LowerChar(Head(s)), UpperChar(Head(s))},
                       r \in Variantes(Tail(s))}

\* C5: after a successful create_author, get_author_by_email with any
\* upper/lower-case variant of the email returns the stored author whose id
\* is the id create_author returned.
C5_CrearLuegoBuscar ==
    (ult.op = "crear_autor" /\ ult.res.t = "ok") =>
        \A v \in Variantes(ult.a.email) :
            LET r == buscar_autor_por_email(autores_csv, v)
            IN  /\ r.t = "ok"
                /\ ~EsNone(r.v)
                /\ r.v.id_autor = ult.res.v.id_autor
                /\ \E i \in 1..Len(autores_csv) : autores_csv[i] = r.v

\* a second author was created from an email given in mixed case
C5_Testigo ==
    /\ ult.op = "crear_autor"
    /\ ult.res.t = "ok"
    /\ ult.a.email = email_A
    /\ Len(autores_csv) = 2

----------------------------------------------------------------------------
(* Claims about identifiers, under Spec *)

SinRepetir(items, clave) ==
    \A i, j \in 1..Len(items) : i # j => items[i][clave] # items[j][clave]

\* C2: no two stored authors share an id, no two stored posts share an id,
\* and within every post no two comments share an id.
C2_IdsUnicos ==
    /\ SinRepetir(autores_csv, "id_autor")
    /\ SinRepetir(posts_json, "id_post")
    /\ \A p \in 1..Len(posts_json) :
            SinRepetir(posts_json[p].comentarios, "id_comentario")

\* a create has added a second record to a collection: a post holds two
\* comments, the second one just added
C2_Testigo ==
    /\ ult.op = "agregar_comentario_a_post"
    /\ ult.res.t = "ok"
    /\ \E p \in 1..Len(posts_json) : Len(posts_json[p].comentarios) = 2

----------------------------------------------------------------------------
(* Claims about posts, under SpecPosts *)

\* the outcome is the exception of this class
LanzaClase(res, clase) == res.t = "err" /\ res.v = clase

\* the outcome is this returned boolean
RetornaBool(res, b) == res.t = "ok" /\ res.v = b

ExistePost(posts, id_str) == \E i \in 1..Len(posts) : posts[i].id_post = id_str

ElPost(posts, id_str) == posts[CHOOSE i \in 1..Len(posts) : posts[i].id_post = id_str]

\* C6: update_post on an existing post by an acting author whose id, as a
\* string, differs from the post's author_id fails with Unauthorized and
\* leaves the stored posts unchanged; on an absent post id it fails with
\* PostNotFound; it succeeds only for the owner.
C6_ActualizarSoloElDueno ==
    [][ult'.op = "actualizar_post" =>
        LET id == str(ult'.a.id_post)
            sesion == str(ult'.a.id_autor_en_sesion)
        IN  /\ ~ExistePost(posts_json, id) =>
                    /\ LanzaClase(ult'.res, "PostNoEncontrado")
                    /\ posts_json' = posts_json
            /\ (ExistePost(posts_json, id) /\ ElPost(posts_json, id).id_autor # sesion) =>
                    /\ LanzaClase(ult'.res, "AccesoNoAutorizado")
                    /\ posts_json' = posts_json
            /\ ult'.res.t = "ok" =>
                    /\ ExistePost(posts_json, id)
                    /\ ElPost(posts_json, id).id_autor = sesion]_vars

\* an update by another author was turned down
C6_Testigo ==
    /\ ult.op = "actualizar_post"
    /\ LanzaClase(ult.res, "AccesoNoAutorizado")
    /\ ExistePost(posts_json, str(ult.a.id_post))
    /\ "titulo" \in DOMAIN ult.a.datos_nuevos
    /\ _es_str_no_vacio(ult.a.datos_nuevos["titulo"])

\* C7: delete_post on an existing post by an acting author who is not its
\* owner raises Unauthorized and keeps the post; by the owner it removes the
\* post, keeps the others and returns True, and a delete_post of the same id
\* right after, by any acting author, returns False; False is returned only
\* when no post has that id.
C7_EliminarPost ==
    [][ult'.op = "eliminar_post" =>
        LET id == str(ult'.a.id_post)
            sesion == str(ult'.a.id_autor_en_sesion)
            Otro(p) == p.id_post # id
        IN  /\ (ExistePost(posts_json, id) /\ ElPost(posts_json, id).id_autor # sesion) =>
                    /\ LanzaClase(ult'.res, "AccesoNoAutorizado")
                    /\ posts_json' = posts_json
            /\ (ExistePost(posts_json, id) /\ ElPost(posts_json, id).id_autor = sesion) =>
                    /\ RetornaBool(ult'.res, TRUE)
                    /\ posts_json' = SelectSeq(posts_json, Otro)
                    /\ ~ExistePost(posts_json', id)
                    /\ \A otra \in Sesiones :
                        /\ RetornaBool(eliminar_post(posts_json', ult'.a.id_post, otra).ret, FALSE)
                        /\ eliminar_post(posts_json', ult'.a.id_post, otra).archivo = posts_json'
            /\ RetornaBool(ult'.res, FALSE) => ~ExistePost(posts_json, id)]_vars

\* the owner deleted one of two posts
C7_Testigo ==
    /\ ult.op = "eliminar_post"
    /\ RetornaBool(ult.res, TRUE)
    /\ Len(posts_json) = 1

----------------------------------------------------------------------------
(* Claims about comments, under SpecComentarios *)

ExisteComentario(posts, id_post_str, id_com_str) ==
    /\ ExistePost(posts, id_post_str)
    /\ \E c \in 1..Len(ElPost(posts, id_post_str).comentarios) :
            ElPost(posts, id_post_str).comentarios[c].id_comentario = id_com_str

ElComentario(posts, id_post_str, id_com_str) ==
    LET comentarios == ElPost(posts, id_post_str).comentarios
    IN  comentarios[CHOOSE c \in 1..Len(comentarios) :
                        comentarios[c].id_comentario = id_com_str]

\* C8 as stated: delete_comment on an existing comment fails with
\* Unauthorized only when the comment's author_id is non-empty, an acting
\* author id is supplied and non-empty, and the two differ as strings; if
\* either side is absent or empty, the empty string given as acting author id
\* included, the comment is deleted and True is returned.
C8_VacioPermiteEliminar ==
    [][(/\ ult'.op = "eliminar_comentario_de_post"
        /\ ExisteComentario(posts_json, str(ult'.a.id_post), str(ult'.a.id_comentario))) =>
        LET id == str(ult'.a.id_post)
            idc == str(ult'.a.id_comentario)
            c == ElComentario(posts_json, id, idc)
            sesion == ult'.a.id_autor_en_sesion
            ambos == /\ c.id_autor # <<>>
                     /\ sesion.t # "none"
                     /\ str(sesion) # <<>>
        IN  /\ LanzaClase(ult'.res, "AccesoNoAutorizado") =>
                    (ambos /\ c.id_autor # str(sesion))
            /\ ~ambos =>
                    /\ RetornaBool(ult'.res, TRUE)
                    /\ ~ExisteComentario(posts_json', id, idc)]_vars

\* C8 amended: delete_comment on an existing comment fails with Unauthorized,
\* and changes nothing, exactly when the comment's author_id is non-empty, an
\* acting author id is supplied (anything but None: the empty string counts
\* as supplied) and the two differ as strings; otherwise the comment is
\* deleted and True is returned.
C8_EliminarComentario ==
    [][(/\ ult'.op = "eliminar_comentario_de_post"
        /\ ExisteComentario(posts_json, str(ult'.a.id_post), str(ult'.a.id_comentario))) =>
        LET id == str(ult'.a.id_post)
            idc == str(ult'.a.id_comentario)
            c == ElComentario(posts_json, id, idc)
            sesion == ult'.a.id_autor_en_sesion
            ajeno == /\ c.id_autor # <<>>
                     /\ sesion.t # "none"
                     /\ c.id_autor # str(sesion)
        IN  /\ ajeno =>
                    /\ LanzaClase(ult'.res, "AccesoNoAutorizado")
                    /\ posts_json' = posts_json
            /\ ~ajeno =>
                    /\ RetornaBool(ult'.res, TRUE)
                    /\ ~ExisteComentario(posts_json', id, idc)]_vars

\* the delete of a comment that records an author, with the empty string as
\* acting author id, was turned down
C8_Testigo ==
    /\ ult.op = "eliminar_comentario_de_post"
    /\ ult.a.id_autor_en_sesion = PyStr(<<>>)
    /\ LanzaClase(ult.res, "AccesoNoAutorizado")

\* C9: update_comment with a new body that is not blank, on a comment whose
\* stored author_id is empty, succeeds and stores the trimmed body, whatever
\* the acting author id (None, empty, or an author's id).
C9_AnonimoSiempreEditable ==
    [][(/\ ult'.op = "actualizar_comentario_de_post"
        /\ ExisteComentario(posts_json, str(ult'.a.id_post), str(ult'.a.id_comentario))
        /\ ElComentario(posts_json, str(ult'.a.id_post), str(ult'.a.id_comentario)).id_autor = <<>>
        /\ "contenido" \in DOMAIN ult'.a.datos_nuevos
        /\ _es_str_no_vacio(ult'.a.datos_nuevos["contenido"])) =>
        LET id == str(ult'.a.id_post)
            idc == str(ult'.a.id_comentario)
            c == ElComentario(posts_json, id, idc)
        IN  /\ ult'.res.t = "ok"
            /\ ult'.res.v = [c EXCEPT !.contenido = strip(ult'.a.datos_nuevos["contenido"])]
            /\ ExisteComentario(posts_json', id, idc)
            /\ ElComentario(posts_json', id, idc) = ult'.res.v]_vars

\* an author's id was supplied and the anonymous comment was edited
C9_Testigo ==
    /\ ult.op = "actualizar_comentario_de_post"
    /\ ult.res.t = "ok"
    /\ ult.res.v.id_autor = <<>>
    /\ ult.a.id_autor_en_sesion = PyStr(<<"2">>)
    /\ ult.a.datos_nuevos["contenido"] = contenido_D
    /\ ult.res.v.contenido = <<"D">>

\* C10: when the post exists but holds no comment with the given id,
\* update_comment fails with ValidationError and delete_comment returns
\* False, and the posts file is left unchanged; when the post is absent both
\* fail with PostNotFound.
C10_ComentarioNoEncontrado ==
    [][LET id == str(ult'.a.id_post)
           idc == str(ult'.a.id_comentario)
       IN  /\ (ult'.op = "actualizar_comentario_de_post"
                /\ ExistePost(posts_json, id)
                /\ ~ExisteComentario(posts_json, id, idc)) =>
                    /\ LanzaClase(ult'.res, "ValidacionError")
                    /\ posts_json' = posts_json
           /\ (ult'.op = "eliminar_comentario_de_post"
                /\ ExistePost(posts_json, id)
                /\ ~ExisteComentario(posts_json, id, idc)) =>
                    /\ RetornaBool(ult'.res, FALSE)
                    /\ posts_json' = posts_json
           /\ (ult'.op \in {"actualizar_comentario_de_post", "eliminar_comentario_de_post"}
                /\ ~ExistePost(posts_json, id)) =>
                    /\ LanzaClase(ult'.res, "PostNoEncontrado")
                    /\ posts_json' = posts_json]_vars

\* the post holds a comment, another comment id was given with a body that is
\* not blank, and the update failed with ValidationError
C10_Testigo ==
    /\ ult.op = "actualizar_comentario_de_post"
    /\ LanzaClase(ult.res, "ValidacionError")
    /\ _es_str_no_vacio(ult.a.datos_nuevos["contenido"])
    /\ ExistePost(posts_json, str(ult.a.id_post))
    /\ ElPost(posts_json, str(ult.a.id_post)).comentarios # <<>>
    /\ ~ExisteComentario(posts_json, str(ult.a.id_post), str(ult.a.id_comentario))

----------------------------------------------------------------------------
(* Claims about tags, under SpecTags *)

TagNormal(tag) == tag # <<>> /\ strip(tag) = tag /\ lower(tag) = tag

TagsNormales(tags) ==
    /\ \A i \in 1..Len(tags) : TagNormal(tags[i])
    /\ \A i, j \in 1..Len(tags) : i # j => tags[i] # tags[j]

\* the elements of a tags value that is a str, a list or a tuple of str, each
\* trimmed and lower-cased
Entrada(tags) ==
    CASE tags.t = "str" ->
            LET partes == split_coma(tags.s)
            IN  [i \in 1..Len(partes) |-> lower(strip(partes[i]))]
      [] tags.t \in {"list", "tuple"} ->
            [i \in 1..Len(tags.l) |-> lower(strip(tags.l[i].s))]
      [] OTHER -> <<>>

PrimeraVez(entrada, x) ==
    CHOOSE i \in 1..Len(entrada) :
        entrada[i] = x /\ \A j \in 1..(i - 1) : entrada[j] # x

\* tags holds the non-empty elements of entrada, each once, in the order of
\* their first occurrence
EnOrdenDePrimeraAparicion(tags, entrada) ==
    /\ {tags[i] : i \in 1..Len(tags)} =
            {entrada[i] : i \in 1..Len(entrada)} \ {<<>>}
    /\ \A i, j \in 1..Len(tags) : i # j => tags[i] # tags[j]
    /\ \A i, j \in 1..Len(tags) :
            i < j => PrimeraVez(entrada, tags[i]) < PrimeraVez(entrada, tags[j])

\* the tags value of the call in u, where the call gives one
TagsDelLlamado(u) ==
    CASE u.op = "crear_post" -> u.a.tags
      [] u.op = "actualizar_post" /\ "tags" \in DOMAIN u.a.datos_nuevos ->
            u.a.datos_nuevos["tags"]
      [] OTHER -> PyNone

DaTags(u) ==
    \/ u.op = "crear_post"
    \/ u.op = "actualizar_post" /\ "tags" \in DOMAIN u.a.datos_nuevos

TagsBienFormados(tags) ==
    \/ tags.t \in {"none", "str"}
    \/ tags.t \in {"list", "tuple"} /\ \A i \in 1..Len(tags.l) : tags.l[i].t = "str"

\* C11: after every create_post and update_post, every stored post's tag
\* list holds only trimmed, lower-cased, non-empty strings and no duplicates,
\* and the tags a successful call stores are those of its input in the order
\* of their first occurrence.
C11_TagsEnFormaNormal ==
    [][/\ \A p \in 1..Len(posts_json') : TagsNormales(posts_json'[p].tags)
       /\ (DaTags(ult') /\ ult'.res.t = "ok") =>
            EnOrdenDePrimeraAparicion(ult'.res.v.tags, Entrada(TagsDelLlamado(ult')))]_vars

\* an update stored ["a", "b"] for the list ["a", " B", "A ", ""]
C11_Testigo ==
    /\ ult.op = "actualizar_post"
    /\ ult.res.t = "ok"
    /\ ult.a.datos_nuevos["tags"] = PyList(tags_lista)
    /\ ult.res.v.tags = <<<<"a">>, <<"b">>>>
    /\ \E p \in 1..Len(posts_json) : posts_json[p].tags = <<<<"a">>, <<"b">>>>

\* the list of the comma-separated parts of a string
Partes(s) ==
    LET partes == split_coma(s)
    IN  PyList([i \in 1..Len(partes) |-> PyStr(partes[i])])

\* the call in ult' gives no blank title or body, and its post exists and is
\* the acting author's, or its author is stored where that is to be validated
SinOtraFalla ==
    \/ /\ ult'.op = "crear_post"
       /\ _es_str_no_vacio(ult'.a.titulo)
       /\ _es_str_no_vacio(ult'.a.contenido)
       /\ ult'.a.validar_autor_en =>
            \E i \in 1..Len(autores_csv) :
                autores_csv[i].id_autor = str(ult'.a.id_autor_en_sesion)
    \/ /\ ult'.op = "actualizar_post"
       /\ ExistePost(posts_json, str(ult'.a.id_post))
       /\ ElPost(posts_json, str(ult'.a.id_post)).id_autor = str(ult'.a.id_autor_en_sesion)
       /\ \A k \in DOMAIN ult'.a.datos_nuevos \ {"tags"} :
            _es_str_no_vacio(ult'.a.datos_nuevos[k])

\* C12: in create_post and update_post, on a call that does not fail for
\* another reason, a comma-separated string gives the tag list the list of
\* its parts gives; None gives the empty list; a list or tuple of strings is
\* normalized element by element; any other shape, or a list with an element
\* that is no string, fails with ValidationError; a call given such tags
\* stores nothing.
C12_FormasDeTags ==
    [][DaTags(ult') =>
        LET tags == TagsDelLlamado(ult')
        IN  /\ (TagsBienFormados(tags) /\ SinOtraFalla) => ult'.res.t = "ok"
            /\ (ult'.res.t = "ok" /\ tags.t = "str") =>
                    /\ ult'.res.v.tags = _parsear_tags(Partes(tags.s))
                    /\ EnOrdenDePrimeraAparicion(ult'.res.v.tags, Entrada(Partes(tags.s)))
            /\ (ult'.res.t = "ok" /\ tags.t = "none") => ult'.res.v.tags = <<>>
            /\ (ult'.res.t = "ok" /\ tags.t \in {"list", "tuple"}) =>
                    /\ TagsNormales(ult'.res.v.tags)
                    /\ EnOrdenDePrimeraAparicion(ult'.res.v.tags, Entrada(tags))
            /\ ~TagsBienFormados(tags) =>
                    /\ ult'.res.t = "err"
                    /\ posts_json' = posts_json
                    /\ SinOtraFalla => LanzaClase(ult'.res, "ValidacionError")]_vars

\* a create stored ["b", "a"] for the string " B,a,b ,,A"
C12_Testigo ==
    /\ ult.op = "crear_post"
    /\ ult.res.t = "ok"
    /\ ult.a.tags = PyStr(tags_cadena)
    /\ ult.res.v.tags = <<<<"b">>, <<"a">>>>

\* C13: search_posts_by_tag returns exactly the stored posts one of whose
\* tags equals, ignoring case, the trimmed query (the whole tag, not a part
\* of it), in stored order, and leaves the file as it is; a query that is
\* blank fails with ValidationError.
C13_BuscarPorTag ==
    [][ult'.op = "buscar_posts_por_tag" =>
        LET consulta == strip(ult'.a.tag)
            Tiene(p) == \E i \in 1..Len(p.tags) : lower(p.tags[i]) = lower(consulta)
        IN  /\ posts_json' = posts_json
            /\ consulta = <<>> => LanzaClase(ult'.res, "ValidacionError")
            /\ consulta # <<>> =>
                    /\ ult'.res.t = "ok"
                    /\ ult'.res.v = SelectSeq(posts_json, Tiene)]_vars

\* the query " A " found one of two posts, the other one tagged "ab"
C13_Testigo ==
    /\ ult.op = "buscar_posts_por_tag"
    /\ ult.a.tag = <<" ", "A", " ">>
    /\ ult.res.t = "ok"
    /\ Len(ult.res.v) = 1
    /\ Len(posts_json) = 2
    /\ \E p \in 1..Len(posts_json) : posts_json[p].tags = <<<<"a", "b">>>>

----------------------------------------------------------------------------
(* Claims about authors and their posts *)

ExisteAutor(autores, id_str) == \E i \in 1..Len(autores) : autores[i].id_autor = id_str

ElAutor(autores, id_str) ==
    autores[CHOOSE i \in 1..Len(autores) : autores[i].id_autor = id_str]

\* C14, under SpecValidarAutor: create_post with the validate_author_in
\* option adds no post unless an author with the given author_id is stored
\* in the authors file at the time of the call, and fails then with
\* AuthorNotFound (on a call whose title and body are not blank, which are
\* validated first); with the author stored and title, body and tags valid it
\* succeeds; when it succeeds the new post, appended to the file, has that
\* author_id and an empty comment list.
C14_ValidarAutor ==
    [][(ult'.op = "crear_post" /\ ult'.a.validar_autor_en) =>
        LET id == str(ult'.a.id_autor_en_sesion)
            validos == /\ _es_str_no_vacio(ult'.a.titulo)
                       /\ _es_str_no_vacio(ult'.a.contenido)
        IN  /\ ~ExisteAutor(autores_csv, id) =>
                    /\ ult'.res.t = "err"
                    /\ posts_json' = posts_json
                    /\ validos => LanzaClase(ult'.res, "AutorNoEncontrado")
            /\ (ExisteAutor(autores_csv, id) /\ validos /\ TagsBienFormados(ult'.a.tags)) =>
                    ult'.res.t = "ok"
            /\ ult'.res.t = "ok" =>
                    /\ ExisteAutor(autores_csv, id)
                    /\ ult'.res.v.id_autor = id
                    /\ ult'.res.v.comentarios = <<>>
                    /\ posts_json' = Append(posts_json, ult'.res.v)]_vars

\* an author is stored, but none with the acting id, and the create with a
\* title and a body was turned down
C14_Testigo ==
    /\ ult.op = "crear_post"
    /\ ult.a.validar_autor_en
    /\ ult.a.titulo = titulo_T
    /\ LanzaClase(ult.res, "AutorNoEncontrado")
    /\ autores_csv # <<>>

\* C15, under Spec: delete_author returns True exactly when an author with
\* that id was stored, and that author is then removed and the others kept;
\* it returns False otherwise and changes nothing, so a delete of the same id
\* right after returns False; it never changes the posts file.
C15_EliminarAutor ==
    [][ult'.op = "eliminar_autor" =>
        LET id == str(ult'.a.id_autor)
            Otro(a) == a.id_autor # id
        IN  /\ ult'.res.t = "ok"
            /\ ult'.res.v = ExisteAutor(autores_csv, id)
            /\ autores_csv' = SelectSeq(autores_csv, Otro)
            /\ ~ExisteAutor(autores_csv', id)
            /\ eliminar_autor(autores_csv', ult'.a.id_autor) = Efecto(autores_csv', Retorna(FALSE))
            /\ posts_json' = posts_json]_vars

\* the author of a stored post was deleted, and the post still carries the id
C15_Testigo ==
    /\ ult.op = "eliminar_autor"
    /\ RetornaBool(ult.res, TRUE)
    /\ ~ExisteAutor(autores_csv, str(ult.a.id_autor))
    /\ \E p \in 1..Len(posts_json) : posts_json[p].id_autor = str(ult.a.id_autor)

\* C16, under SpecAutores: update_author on an absent id fails with
\* AuthorNotFound; on a stored author, with no blank name in the same call,
\* setting the email to the author's own current email in any letter case
\* succeeds and stores it lower-cased, and setting it to the email of another
\* stored author in any letter case fails with DuplicateEmail; a failed call
\* leaves every author unchanged.
C16_UnicidadFrenteAOtros ==
    [][ult'.op = "actualizar_autor" =>
        LET id == str(ult'.a.id_autor)
            datos == ult'.a.datos_nuevos
            nuevo == lower(strip(datos["email"]))
            nombre_valido == "nombre_autor" \in DOMAIN datos =>
                                _es_str_no_vacio(datos["nombre_autor"])
            DeOtro == \E i \in 1..Len(autores_csv) :
                        /\ autores_csv[i].id_autor # id
                        /\ lower(autores_csv[i].email) = nuevo
        IN  /\ ~ExisteAutor(autores_csv, id) => LanzaClase(ult'.res, "AutorNoEncontrado")
            /\ ult'.res.t = "err" => autores_csv' = autores_csv
            /\ (ExisteAutor(autores_csv, id) /\ "email" \in DOMAIN datos /\ nombre_valido) =>
                    /\ lower(ElAutor(autores_csv, id).email) = nuevo =>
                            /\ ult'.res.t = "ok"
                            /\ ElAutor(autores_csv', id).email = nuevo
                            /\ \A i \in 1..Len(autores_csv) :
                                    autores_csv[i].id_autor # id =>
                                        autores_csv'[i] = autores_csv[i]
                    /\ DeOtro => LanzaClase(ult'.res, "EmailDuplicado")]_vars

\* with two authors stored, one was given its own email in upper case
C16_Testigo ==
    /\ ult.op = "actualizar_autor"
    /\ ult.res.t = "ok"
    /\ ult.a.datos_nuevos = [email |-> email_A]
    /\ ult.res.v.email = email_a
    /\ Len(autores_csv) = 2

----------------------------------------------------------------------------
(* Claims about the frame of updates and about comment ids *)

\* C17, under SpecMarco: a successful update_post gives title, body and
\* tags, where provided, their new normalized values and keeps every other
\* field of the post (id, author_id, created_at, comment list, and those of
\* title, body and tags not provided); every other post is unchanged and
\* every post keeps its place in the file.
C17_MarcoDeActualizarPost ==
    [][(ult'.op = "actualizar_post" /\ ult'.res.t = "ok") =>
        LET id == str(ult'.a.id_post)
            datos == ult'.a.datos_nuevos
            viejo == ElPost(posts_json, id)
            nuevo == ult'.res.v
        IN  /\ DOMAIN nuevo = DOMAIN viejo
            /\ \A k \in DOMAIN viejo \ (DOMAIN datos \cap {"titulo", "contenido", "tags"}) :
                    nuevo[k] = viejo[k]
            /\ "titulo" \in DOMAIN datos => nuevo.titulo = strip(datos["titulo"])
            /\ "contenido" \in DOMAIN datos => nuevo.contenido = strip(datos["contenido"])
            /\ "tags" \in DOMAIN datos =>
                    EnOrdenDePrimeraAparicion(nuevo.tags, Entrada(datos["tags"]))
            /\ Len(posts_json') = Len(posts_json)
            /\ \A i \in 1..Len(posts_json) :
                    posts_json'[i] = IF posts_json[i].id_post = id THEN nuevo
                                     ELSE posts_json[i]]_vars

\* the first of two posts, holding a comment, was given a new title
C17_Testigo ==
    /\ ult.op = "actualizar_post"
    /\ ult.res.t = "ok"
    /\ DOMAIN ult.a.datos_nuevos = {"titulo"}
    /\ ult.res.v.comentarios # <<>>
    /\ Len(posts_json) = 2
    /\ posts_json[1] = ult.res.v

\* the id after the largest id of the comments, 1 when there is none
SiguienteId(comentarios) ==
    IF comentarios = <<>> THEN 1
    ELSE 1 + Max({ValorDecimal(comentarios[i].id_comentario) : i \in 1..Len(comentarios)})

\* C18, under SpecComentariosPorPost: add_comment on an absent post fails
\* with PostNotFound (on a call whose name and body are not blank) and
\* changes nothing; on an existing post it appends one comment at the end of
\* that post's comment list, with id the largest comment id of that post
\* plus 1, or 1 when the post has no comments, whatever the other posts
\* hold; the stored author_id is the empty string when none is supplied; no
\* other post and no other field of the post is changed.
C18_AgregarComentario ==
    [][ult'.op = "agregar_comentario_a_post" =>
        LET id == str(ult'.a.id_post)
            validos == /\ _es_str_no_vacio(ult'.a.autor)
                       /\ _es_str_no_vacio(ult'.a.contenido)
            viejo == ElPost(posts_json, id)
            c == ult'.res.v
        IN  /\ ~ExistePost(posts_json, id) =>
                    /\ ult'.res.t = "err"
                    /\ posts_json' = posts_json
                    /\ validos => LanzaClase(ult'.res, "PostNoEncontrado")
            /\ (ExistePost(posts_json, id) /\ validos) => ult'.res.t = "ok"
            /\ ult'.res.t = "ok" =>
                    /\ ExistePost(posts_json, id)
                    /\ c.id_comentario = str(PyInt(SiguienteId(viejo.comentarios)))
                    /\ c.id_autor = IF ult'.a.id_autor.t = "none" THEN <<>>
                                    ELSE str(ult'.a.id_autor)
                    /\ Len(posts_json') = Len(posts_json)
                    /\ \A i \in 1..Len(posts_json) :
                            posts_json'[i] =
                                IF posts_json[i].id_post = id
                                THEN [viejo EXCEPT !.comentarios = Append(@, c)]
                                ELSE posts_json[i]]_vars

\* two posts each hold a comment with id "1", the second one just added
\* with no author id supplied
C18_Testigo ==
    /\ ult.op = "agregar_comentario_a_post"
    /\ ult.res.t = "ok"
    /\ ult.a.id_autor = PyNone
    /\ ult.res.v.id_autor = <<>>
    /\ ult.res.v.id_comentario = <<"1">>
    /\ Len(posts_json) = 2
    /\ \A p \in 1..2 : ExisteComentario(posts_json, posts_json[p].id_post, <<"1">>)

----------------------------------------------------------------------------
(* Claims about the persistence layer, under SpecGestor *)

\* the file holds what guardar_datos or inicializar_archivo writes: the
\* fixed header and rows of as many cells, or a JSON list
Integro(formato, archivo) ==
    /\ archivo.estado = "texto"
    /\ IF formato = "csv"
       THEN /\ archivo.contenido.cabecera = CAMPOS_AUTORES
            /\ \A i \in 1..Len(archivo.contenido.filas) :
                    Len(archivo.contenido.filas[i]) = Len(CAMPOS_AUTORES)
       ELSE archivo.contenido.j = "array"

\* C19: a load right after a save leaves the file as saved and returns, for
\* the CSV file, one record per saved item, in order, holding exactly the
\* four fixed fields, every value the trimmed text of the saved value, the
\* empty text where the value is missing or None, keys that are no column
\* dropped; for the JSON file, a list equal to the saved one, nested lists
\* included.
C19_GuardarYCargar ==
    [][ult'.op = "guardar_datos" =>
        LET formato == ult'.a.formato
            datos == ult'.a.datos
            e == cargar_datos(formato, disco'[formato])
            columnas == {CAMPOS_AUTORES[j] : j \in 1..Len(CAMPOS_AUTORES)}
        IN  /\ e.archivo = disco'[formato]
            /\ e.ret.t = "ok"
            /\ Len(e.ret.v) = Len(datos)
            /\ formato = "csv" =>
                    \A i \in 1..Len(datos) :
                        /\ DOMAIN e.ret.v[i] = columnas
                        /\ \A k \in columnas :
                                e.ret.v[i][k] =
                                    IF k \in DOMAIN datos[i].l /\ datos[i].l[k].t # "none"
                                    THEN strip(str(datos[i].l[k]))
                                    ELSE <<>>
            /\ formato = "json" => e.ret.v = datos]_vars

\* two dicts were saved to the CSV file, which had been damaged: one with an
\* int, a padded name, None and a foreign key, one that lacks columns
C19_Testigo ==
    /\ ult.op = "guardar_datos"
    /\ ult.a.formato = "csv"
    /\ ult.a.datos = <<item_suelto, item_prueba>>
    /\ Integro("csv", disco.csv)
    /\ Len(disco.csv.contenido.filas) = 2
    /\ disco.json.estado = "texto"
    /\ disco.json.contenido = json_dumps(PyList(<<post_completo, post_prueba>>))

\* C20: load never fails: on an absent file it creates the empty file of the
\* right shape and returns the empty list; on a file that is malformed, cut
\* short, unreadable or, for JSON, no list, it returns the empty list; no
\* exception reaches the caller.
C20_CargarNuncaFalla ==
    [][ult'.op = "cargar_datos" =>
        LET formato == ult'.a.formato
            antes == disco[formato]
        IN  /\ ult'.res.t = "ok"
            /\ antes.estado = "ausente" =>
                    /\ disco'[formato] = inicializar_archivo(formato, Ausente)
                    /\ Len(ult'.res.v) = 0
            /\ (antes.estado # "ausente" /\ ~Integro(formato, antes)) =>
                    Len(ult'.res.v) = 0]_vars

\* C21: inicializar_archivo on an absent file creates a file that loads as
\* the empty list, a header row alone for CSV and the empty list for JSON;
\* on a file that exists, whatever it holds, it leaves the content as it is;
\* a second inicializar_archivo right after the first changes nothing.
C21_InicializarIdempotente ==
    [][ult'.op = "inicializar_archivo" =>
        LET formato == ult'.a.formato
            antes == disco[formato]
            despues == disco'[formato]
            e == cargar_datos(formato, despues)
        IN  /\ antes.estado = "ausente" =>
                    /\ despues.estado = "texto"
                    /\ despues.contenido =
                            (IF formato = "csv" THEN Csv(CAMPOS_AUTORES, <<>>) ELSE JArr(<<>>))
                    /\ e.ret = Retorna(<<>>)
                    /\ e.archivo = despues
            /\ antes.estado # "ausente" => despues = antes
            /\ inicializar_archivo(formato, despues) = despues]_vars

\* inicializar_archivo was called on a JSON file that holds two posts, the
\* CSV file being absent
C21_Testigo ==
    /\ ult.op = "inicializar_archivo"
    /\ ult.a.formato = "json"
    /\ disco.json.estado = "texto"
    /\ disco.json.contenido.j = "array"
    /\ Len(disco.json.contenido.l) = 2
    /\ disco.csv.estado = "ausente"

----------------------------------------------------------------------------
(* Claims about calls in progress at the same time *)

\* C22: a load that runs while a save to the same path is in progress returns
\* what a load returns on a content the path has held since the load began:
\* the whole list stored before the save or the whole list given to the save,
\* never a part of one and never the content of a half-written file.
C22_ReemplazoAtomico ==
    \A t \in Hilos :
        (hilos[t].op = "cargar_datos" /\ hilos[t].pc = "libre")
            => hilos[t].res \in hilos[t].posibles

\* a load has returned the two records stored before a save that put one
\* record in their place while the load held the file open
C22_Testigo ==
    /\ hilos[2].op = "cargar_datos"
    /\ hilos[2].pc = "libre"
    /\ hilos[2].formato = "csv"
    /\ hilos[2].res.t = "ok"
    /\ Len(hilos[2].res.v) = 2
    /\ Cardinality(hilos[2].posibles) = 2
    /\ hilos[1].op = "guardar_datos"
    /\ hilos[1].pc = "libre"
    /\ hilos[1].a.datos = <<item_prueba>>
    /\ disco.csv = guardar_datos("csv", Ausente, <<item_prueba>>).archivo

\* the records a load returns on the file of formato, as the domain layer
\* holds them
Guardados(formato, archivo) ==
    LET e == cargar_datos(formato, archivo)
    IN  IF e.ret.t = "ok" THEN lista_cargada(formato, e.ret.v) ELSE <<>>

\* the id of a record of the file of formato
IdDe(formato, registro) == IF formato = "csv" THEN registro.id_autor ELSE registro.id_post

\* C23: when a create saves, the file holds the list that create loaded and
\* its new record, nothing else: a record another create has saved since
\* this one read the file is gone; and when the two creates loaded the same
\* list (both read before either saved), both return the same new id.
C23_CarreraDeCreates ==
    [][\A t \in Hilos :
        (/\ hilos[t].pc = "replace"
         /\ hilos'[t].pc = "libre"
         /\ hilos[t].op \in {"crear_autor", "crear_post"})
        => LET formato == hilos[t].formato
               mio == hilos[t].res.v
           IN  /\ hilos'[t].res = Retorna(mio)
               /\ Guardados(formato, disco'[formato]) = Append(hilos[t].leido, mio)
               /\ \A x \in hilos[t].adelantados :
                    x.leido = hilos[t].leido
                        => /\ IdDe(formato, x.res) = IdDe(formato, mio)
                           /\ x.res # mio =>
                                \A i \in 1..Len(Guardados(formato, disco'[formato])) :
                                    Guardados(formato, disco'[formato])[i] # x.res]_vars

\* two creates of authors with different emails have both returned id "1",
\* thread 2 the later to save: the file holds one author, that of thread 2
C23_Testigo ==
    /\ hilos[1].op = "crear_autor" /\ hilos[1].pc = "libre" /\ hilos[1].res.t = "ok"
    /\ hilos[2].op = "crear_autor" /\ hilos[2].pc = "libre" /\ hilos[2].res.t = "ok"
    /\ hilos[1].res.v.id_autor = <<"1">>
    /\ hilos[2].res.v.id_autor = <<"1">>
    /\ hilos[1].res.v.email # hilos[2].res.v.email
    /\ hilos[2].adelantados # {}
    /\ ult.a.hilo = 2
    /\ Guardados("csv", disco.csv) = <<hilos[2].res.v>>

----------------------------------------------------------------------------
(* Claims about the error kinds *)

\* C24: each error kind is signalled by a type of its own: a handler for one
\* kind intercepts a raised error exactly when the error is of that kind, so
\* a caller that handles EmailDuplicado alone does not intercept a
\* ValidacionError, an AutorNoEncontrado, a PostNoEncontrado or an
\* AccesoNoAutorizado.
C24_ErroresDistinguibles ==
    [][ult'.res.t = "err" =>
        \A manejador \in Taxonomia :
            Captura(manejador, ult'.res.v) <=> manejador = ult'.res.v]_vars

----------------------------------------------------------------------------
(* Claims about the program's start, under SpecBienvenida *)

\* the stored authors with the system email
AutoresSistema(autores) ==
    {i \in 1..Len(autores) : lower(strip(autores[i].email)) = SISTEMA_EMAIL}

\* the stored posts tagged "bienvenida" that carry the author id id_str
Bienvenidas(posts, id_str) ==
    {i \in 1..Len(posts) :
        /\ posts[i].id_autor = id_str
        /\ \E j \in 1..Len(posts[i].tags) : posts[i].tags[j] = BIENVENIDA_TAG}

\* C25: after every call of ensure_sistema_y_bienvenida exactly one author
\* with the system email is stored and exactly one post tagged "bienvenida"
\* carries its id, and the call returns that post; a call that finds the two
\* stored changes nothing and returns the post with the id it had, so every
\* call returns the same id; and no other operation changes the author or
\* the post in between.
C25_EnsureIdempotente ==
    [][/\ ult'.op = "ensure_sistema_y_bienvenida" =>
            /\ ult'.res.t = "ok"
            /\ Cardinality(AutoresSistema(autores_csv')) = 1
            /\ \A i \in AutoresSistema(autores_csv') :
                LET id_str == autores_csv'[i].id_autor
                IN  /\ Cardinality(Bienvenidas(posts_json', id_str)) = 1
                    /\ \A k \in Bienvenidas(posts_json', id_str) : posts_json'[k] = ult'.res.v
            /\ ensure_sistema_y_bienvenida(autores_csv', posts_json', ahora_t)
                    = Efecto2(autores_csv', posts_json', ult'.res)
            /\ AutoresSistema(autores_csv) # {} =>
                    /\ autores_csv' = autores_csv
                    /\ posts_json' = posts_json
       /\ \A i \in AutoresSistema(autores_csv) :
            /\ \E i2 \in AutoresSistema(autores_csv') : autores_csv'[i2] = autores_csv[i]
            /\ \A k \in Bienvenidas(posts_json, autores_csv[i].id_autor) :
                \E k2 \in Bienvenidas(posts_json', autores_csv[i].id_autor) :
                    posts_json'[k2].id_post = posts_json[k].id_post]_vars

\* ensure_sistema_y_bienvenida was called again after a user had registered
\* and published a post of their own tagged "bienvenida"
C25_Testigo ==
    /\ ult.op = "ensure_sistema_y_bienvenida"
    /\ ult.res.t = "ok"
    /\ ult.res.v.id_post = <<"1">>
    /\ Len(autores_csv) = 2
    /\ Len(posts_json) = 2
    /\ \E k \in 1..Len(posts_json) :
        /\ posts_json[k].id_autor # IdSistema
        /\ \E j \in 1..Len(posts_json[k].tags) : posts_json[k].tags[j] = BIENVENIDA_TAG

----------------------------------------------------------------------------
(* Claims about ownership, under SpecPropiedad *)

\* C26: the ownership of a post does not pass to another account: when every
\* post is created with the author validated, a post is updated or deleted
\* only by the account that created it, so an author registered after a post
\* was created does not own it: at the moment crear_autor returns, no stored
\* post carries the new author's id.
C26_PropiedadNoSeTransfiere ==
    [][(ult'.op = "crear_autor" /\ ult'.res.t = "ok") =>
        \A i \in 1..Len(posts_json') :
            posts_json'[i].id_autor # ult'.res.v.id_autor]_vars

----------------------------------------------------------------------------
(* Claims about failed operations, under SpecFallos *)

\* C27: an operation on authors, posts or comments that raises a domain
\* error leaves the records of the authors file and of the posts file as
\* they were before the call.
C27_FalloNoCambiaNada ==
    [][ult'.res.t = "err" =>
        /\ ult'.res.v \in Taxonomia
        /\ autores_csv' = autores_csv
        /\ posts_json' = posts_json]_vars

\* the owner of a post asked for a new title, which passes its check, and a
\* blank content, which fails: the stored post keeps its title
C27_Testigo ==
    /\ ult.op = "actualizar_post"
    /\ ult.res = Lanza("ValidacionError")
    /\ DOMAIN ult.a.datos_nuevos = {"titulo", "contenido"}
    /\ ExistePost(posts_json, str(ult.a.id_post))
    /\ ElPost(posts_json, str(ult.a.id_post)).id_autor = str(ult.a.id_autor_en_sesion)
    /\ ElPost(posts_json, str(ult.a.id_post)).titulo = strip(titulo_T)
    /\ Len(autores_csv) > 0
    /\ Len(ElPost(posts_json, str(ult.a.id_post)).comentarios) > 0

----------------------------------------------------------------------------
(* Claims about creates on a damaged file, under SpecDano *)

\* the file with its damage undone: the bytes read as text, the list taken
\* out of the object it was wrapped in
Reparado(formato, archivo) ==
    CASE archivo.estado = "no_utf8" -> Archivo("texto", archivo.contenido)
      [] archivo.estado = "texto" /\ formato = "json" /\ archivo.contenido.j = "object" ->
            Archivo("texto", archivo.contenido.l.posts)
      [] OTHER -> archivo

\* the records that lie in the file, whether a load returns them or not
RegistrosEn(formato, archivo) ==
    LET g == Guardados(formato, Reparado(formato, archivo))
    IN  {g[i] : i \in 1..Len(g)}

\* C28: a create never loses stored records: after a successful crear_autor
\* or crear_post every record that lay in the file before the call is still
\* stored, also when the file was one that a load treats as empty because it
\* is corrupt or holds no list.
C28_CrearNoPierdeRegistros ==
    [][\A t \in Hilos :
        (/\ hilos[t].pc = "replace"
         /\ hilos'[t].pc = "libre"
         /\ hilos[t].op \in {"crear_autor", "crear_post"})
        => RegistrosEn(hilos[t].formato, disco[hilos[t].formato])
                \subseteq RegistrosEn(hilos[t].formato, disco'[hilos[t].formato])]_vars

----------------------------------------------------------------------------
(* Claims about loads among creates, under SpecLectura *)

\* C29: an operation that only reads never changes the stored records, also
\* when it runs while a create is in progress on the same file, absent at
\* first: no step of a load removes a record from the file, so the record
\* written by the create stays.
C29_LeerNoQuitaRegistros ==
    [][\A t \in Hilos :
        (/\ hilos[t].op = "cargar_datos"
         /\ hilos[t].pc # "libre"
         /\ hilos'[t].pc # hilos[t].pc)
        => RegistrosEn(hilos[t].formato, disco[hilos[t].formato])
                \subseteq RegistrosEn(hilos[t].formato, disco'[hilos[t].formato])]_vars

----------------------------------------------------------------------------
(* Claims about the stored order, under SpecOrden *)

\* the ids of a collection, in stored order
IdsDe(items, clave) == [i \in 1..Len(items) |-> items[i][clave]]

\* the collection without the record of that id, the others in their order
Sin(items, clave, id_str) ==
    LET Otro(r) == r[clave] # id_str
    IN  SelectSeq(items, Otro)

\* the same ids at the same positions, and no record changed but that of
\* id_str, which is now nuevo
MismoLugar(antes, despues, clave, id_str, nuevo) ==
    /\ IdsDe(despues, clave) = IdsDe(antes, clave)
    /\ \A i \in 1..Len(antes) :
        IF antes[i][clave] = id_str THEN despues[i] = nuevo ELSE despues[i] = antes[i]

\* the stored ids grow along the collection: the order is that of creation
EnOrdenDeCreacion(items, clave) ==
    \A i, j \in 1..Len(items) :
        i < j => ValorDecimal(items[i][clave]) < ValorDecimal(items[j][clave])

\* C30: the stored order is stable.  A create appends its record at the end
\* of its collection; an update leaves every record at its position and
\* changes only the one it names; a delete removes its record and keeps the
\* others in their order; for authors, for posts and for the comments of
\* each post.  The records of every collection therefore lie in the order
\* of their creation.
C30_OrdenEstable ==
    [][LET op == ult'.op
           ok == ult'.res.t = "ok"
           hecho == ok /\ ult'.res.v = TRUE
           pidx == Indice(posts_json, "id_post", str(ult'.a.id_post))
       IN  /\ (op = "crear_autor" /\ ok) => autores_csv' = Append(autores_csv, ult'.res.v)
           /\ (op = "crear_post" /\ ok) => posts_json' = Append(posts_json, ult'.res.v)
           /\ (op = "agregar_comentario_a_post" /\ ok) =>
                posts_json' = [posts_json EXCEPT ![pidx].comentarios = Append(@, ult'.res.v)]
           /\ (op = "actualizar_autor" /\ ok) =>
                MismoLugar(autores_csv, autores_csv', "id_autor", str(ult'.a.id_autor), ult'.res.v)
           /\ (op = "actualizar_post" /\ ok) =>
                MismoLugar(posts_json, posts_json', "id_post", str(ult'.a.id_post), ult'.res.v)
           /\ (op = "actualizar_comentario_de_post" /\ ok) =>
                /\ IdsDe(posts_json', "id_post") = IdsDe(posts_json, "id_post")
                /\ \A i \in 1..Len(posts_json) :
                    IF i = pidx
                    THEN MismoLugar(posts_json[i].comentarios, posts_json'[i].comentarios,
                                    "id_comentario", str(ult'.a.id_comentario), ult'.res.v)
                    ELSE posts_json'[i] = posts_json[i]
           /\ (op = "eliminar_autor" /\ hecho) =>
                autores_csv' = Sin(autores_csv, "id_autor", str(ult'.a.id_autor))
           /\ (op = "eliminar_post" /\ hecho) =>
                posts_json' = Sin(posts_json, "id_post", str(ult'.a.id_post))
           /\ (op = "eliminar_comentario_de_post" /\ hecho) =>
                posts_json' = [posts_json EXCEPT ![pidx].comentarios =
                                    Sin(@, "id_comentario", str(ult'.a.id_comentario))]
           /\ EnOrdenDeCreacion(autores_csv', "id_autor")
           /\ EnOrdenDeCreacion(posts_json', "id_post")
           /\ \A i \in 1..Len(posts_json') :
                EnOrdenDeCreacion(posts_json'[i].comentarios, "id_comentario")]_vars

\* the first of three authors, the second of them renamed, has been deleted:
\* the renamed author and the third remain, in that order
C30_Testigo ==
    /\ ult.op = "eliminar_autor"
    /\ ult.res = Retorna(TRUE)
    /\ ult.a.id_autor = PyStr(<<"1">>)
    /\ IdsDe(autores_csv, "id_autor") = <<<<"2">>, <<"3">>>>
    /\ autores_csv[1].nombre_autor = nombre_B
    /\ autores_csv[2].nombre_autor = strip(nombre_A)

====
